---- MODULE Spec2Model ----
(***************************************************************************)
(* Model of the clustering pipeline of youtube-cluster-app:                *)
(*   clustering/cluster.py      create_clusters                            *)
(*   clustering/vectorize.py    vectorize_channels                         *)
(*   enhanced_clustering.py     enhance_embeddings_with_relationships,     *)
(*                              find_optimal_weight, name_clusters         *)
(*                                                                         *)
(* Conventions.  A Python str is a sequence of one-character strings, so   *)
(* that lower(), count() and concatenation are computed and not assumed.   *)
(* A Python dict is a function; an optional key is a field that may be     *)
(* missing from its DOMAIN.  Values whose Python type varies (a score that *)
(* is a float or None) are tagged records [t, v]; None in the place of a   *)
(* str is NoneStr.  Real numbers are exact rationals or fixed-point        *)
(* integers, stated where they are used.                                   *)
(***************************************************************************)
EXTENDS Integers, Sequences, FiniteSets, TLC

VARIABLES
    channels,             \* the list of channel records of the run
    embeddings,           \* the feature matrix, one row per channel
    n_clusters,           \* create_clusters argument
    algorithm,            \* create_clusters argument
    subscription_graph,   \* ordered dict: a sequence of <<channel_id, targets>>
    weight,               \* blend weight, in tenths
    clusters,             \* outcome of create_clusters / name_clusters
    enhanced_embeddings,  \* outcome of enhance_embeddings_with_relationships
    search,               \* loop state of find_optimal_weight
    vec,                  \* outcome of vectorize_channels
    files,                \* the data directory: file name -> content
    loaded,               \* the value load_clusters returned
    viz,                  \* outcome of generate_visualization
    lookups,              \* the relationship lookups the client answered
    pc                    \* position of the run

vars == <<channels, embeddings, n_clusters, algorithm, subscription_graph,
          weight, clusters, enhanced_embeddings, search, vec, files, loaded, viz,
          lookups, pc>>

(***************************************************************************)
(* Python values and built-ins                                             *)
(***************************************************************************)
PyNone == [t |-> "None", v |-> 0]
PyFloat(x) == [t |-> "float", v |-> x]
PyInt(x) == [t |-> "int", v |-> x]
NoneStr == <<"None">>

Get(d, key, default) == IF key \in DOMAIN d THEN d[key] ELSE default

UpperChars == <<"A","B","C","D","E","F","G","H","I","J","K","L","M",
                "N","O","P","Q","R","S","T","U","V","W","X","Y","Z">>
LowerChars == <<"a","b","c","d","e","f","g","h","i","j","k","l","m",
                "n","o","p","q","r","s","t","u","v","w","x","y","z">>

\* str.lower()
Lower(s) ==
    [i \in 1..Len(s) |->
        IF \E j \in 1..Len(UpperChars) : UpperChars[j] = s[i]
        THEN LowerChars[CHOOSE j \in 1..Len(UpperChars) : UpperChars[j] = s[i]]
        ELSE s[i]]

Digits == <<"0","1","2","3","4","5","6","7","8","9">>

RECURSIVE StrNat(_)
StrNat(n) == IF n < 10 THEN <<Digits[n + 1]>>
             ELSE StrNat(n \div 10) \o <<Digits[(n % 10) + 1]>>

\* str(int)
Str(n) == IF n < 0 THEN <<"-">> \o StrNat(0 - n) ELSE StrNat(n)

RECURSIVE SumSeq(_)
SumSeq(s) == IF s = <<>> THEN 0 ELSE Head(s) + SumSeq(Tail(s))

SetOfSeq(s) == {s[i] : i \in 1..Len(s)}

\* the list [F(1), ..., F(n)], built element by element
RECURSIVE ListOf(_, _)
ListOf(F(_), n) == IF n = 0 THEN <<>> ELSE Append(ListOf(F, n - 1), F(n))

Min(S) == CHOOSE x \in S : \A y \in S : x <= y

(***************************************************************************)
(* Library routines used by create_clusters (scikit-learn).  They are       *)
(* modelled by their documented contract: the fitted labels of KMeans and  *)
(* the value of silhouette_score are left open within that contract,       *)
(* DBSCAN is computed.                                                     *)
(***************************************************************************)
RECURSIVE SqDist(_, _)
SqDist(p, q) == IF p = <<>> THEN 0
                ELSE (Head(p) - Head(q)) * (Head(p) - Head(q)) + SqDist(Tail(p), Tail(q))

\* DBSCAN(eps=0.5, min_samples=5): eps = EpsNum / EpsDen
EpsNum == 1
EpsDen == 2
MinSamples == 5

Neighbors(X, i) ==
    {j \in 1..Len(X) : EpsDen * EpsDen * SqDist(X[i], X[j]) <= EpsNum * EpsNum}

IsCore(X, i) == Cardinality(Neighbors(X, i)) >= MinSamples

\* the core points density-connected to the core points S
RECURSIVE CoreReach(_, _)
CoreReach(X, S) ==
    LET S2 == S \cup {j \in 1..Len(X) : IsCore(X, j) /\ \E i \in S : j \in Neighbors(X, i)}
    IN IF S2 = S THEN S ELSE CoreReach(X, S2)

\* labels_ of a fitted DBSCAN: clusters are numbered in the order of their
\* first core point, a border point joins the first cluster reaching it,
\* every other point is noise (-1)
DBSCANLabels(X) ==
    LET N == Len(X)
        Comp(i) == CoreReach(X, {i})
        Seeds == {i \in 1..N : IsCore(X, i) /\ i = Min(Comp(i))}
        ClusterOf(i) == Cardinality({s \in Seeds : s < Min(Comp(i))})
        CoreNbrs(i) == {j \in Neighbors(X, i) : IsCore(X, j)}
    IN [i \in 1..N |->
          IF IsCore(X, i) THEN ClusterOf(i)
          ELSE IF CoreNbrs(i) # {} THEN Min({ClusterOf(j) : j \in CoreNbrs(i)})
          ELSE -1]

\* labels_ of a fitted KMeans(n_clusters=k): every point gets the index of
\* its nearest centre, so equal rows get equal labels; which k-labelling
\* comes out is left open
KMeansLabels(X, k) ==
    {[i \in 1..Len(X) |-> m[X[i]]] : m \in [SetOfSeq(X) -> 0..(k - 1)]}

\* KMeans.fit rejects n_clusters < 1 and n_samples < n_clusters
KMeansRejects(X, k) == k < 1 \/ Len(X) < k

NumLabels(labels) == Cardinality(SetOfSeq(labels))

\* silhouette_score rejects a labelling with fewer than 2 or more than
\* n_samples - 1 distinct labels
SilhouetteRejects(X, labels) ==
    NumLabels(labels) < 2 \/ NumLabels(labels) > Len(X) - 1

\* a silhouette value lies in [-1, 1]; in thousandths
SilhouetteValues == {-200, 0, 700}

\* PCA(n_components=2).fit_transform: coordinate c of row i on the
\* principal axes, kept symbolic
PCACoordinate(X, i, c) == [t |-> IF c = 1 THEN "pca1" ELSE "pca2", v |-> i]

(***************************************************************************)
(* clustering/cluster.py: create_clusters                                  *)
(***************************************************************************)
Raised(error, labels, called) ==
    [status |-> "error", error |-> error, value |-> PyNone,
     labels |-> labels, silhouette_called |-> called]

Returned(value, called) ==
    [status |-> "ok", error |-> "", value |-> value,
     labels |-> value.labels, silhouette_called |-> called]

IsDBSCAN(alg) == Lower(alg) = <<"d","b","s","c","a","n">>

\* lines 84-94: the entry a channel gets in its group
ClusterEntry(channel, X, i) ==
    [channel_id |-> Get(channel, "channel_id", NoneStr),
     title |-> Get(channel, "title", NoneStr),
     description |-> Get(channel, "description", NoneStr),
     subscriber_count |-> Get(channel, "subscriber_count", PyNone),
     video_count |-> Get(channel, "video_count", PyNone),
     x |-> IF Len(X[1]) > 2 THEN PCACoordinate(X, i, 1) ELSE PyFloat(X[i][1]),
     y |-> IF Len(X[1]) > 2 THEN PCACoordinate(X, i, 2) ELSE PyFloat(X[i][2])]

\* lines 80-94: one pass of the grouping loop
GroupAppendMutant(cluster_channels, key, entry) ==
    (key :> <<entry>>) @@ cluster_channels

GroupAppend(cluster_channels, key, entry) ==
    IF key \in DOMAIN cluster_channels
    THEN [cluster_channels EXCEPT ![key] = Append(@, entry)]
    ELSE cluster_channels @@ (key :> <<entry>>)

\* lines 76-96: group the channels by str(label), in input order
RECURSIVE GroupChannels(_, _, _, _, _)
GroupChannels(i, chs, labels, X, cluster_channels) ==
    IF i > Len(chs) THEN cluster_channels
    ELSE GroupChannels(i + 1, chs, labels, X,
            GroupAppend(cluster_channels, Str(labels[i]), ClusterEntry(chs[i], X, i)))

\* line 41
NClustersFound(labels) ==
    NumLabels(labels) - (IF -1 \in SetOfSeq(labels) THEN 1 ELSE 0)

\* line 48: the guard of the silhouette computation
WantsSilhouetteMutant(labels) == NumLabels(labels) > 1

WantsSilhouette(labels) == NumLabels(labels) > 1 /\ Min(SetOfSeq(labels)) >= 0

\* lines 55-98: the result for fitted labels and a silhouette value
ClusterResult(X, chs, k, alg, labels, silhouette) ==
    LET base == [algorithm |-> alg,
                 n_clusters |-> IF IsDBSCAN(alg) THEN NClustersFound(labels) ELSE k,
                 silhouette_score |-> silhouette,
                 labels |-> labels]
        reduced == IF Len(X[1]) > 2
                   THEN [reduced_data |->
                            [i \in 1..Len(X) |-> <<PCACoordinate(X, i, 1), PCACoordinate(X, i, 2)>>],
                         explained_variance |-> <<PCACoordinate(X, 0, 1), PCACoordinate(X, 0, 2)>>]
                   ELSE [i \in {} |-> 0]
        grouped == IF chs # <<>>
                   THEN [channels |-> GroupChannels(1, chs, labels, X, [key \in {} |-> <<>>])]
                   ELSE [i \in {} |-> 0]
    IN base @@ reduced @@ grouped

\* lines 26-35: fitting rejects the input
FitRejectsMutant(X, k, alg) == FALSE

FitRejects(X, k, alg) == ~IsDBSCAN(alg) /\ KMeansRejects(X, k)

\* line 35: cluster_model.fit(embeddings), the matrix the model is fitted on
FitInputMutant(X) == [i \in 1..Len(X) |-> SubSeq(X[i], 1, 2)]

FitInput(X) == X

\* lines 26-45: the labels a fit may produce
FittedLabels(X, k, alg) ==
    IF IsDBSCAN(alg) THEN {DBSCANLabels(FitInput(X))} ELSE KMeansLabels(FitInput(X), k)

\* the outcomes of create_clusters(embeddings, channels, n_clusters, algorithm)
create_clusters(X, chs, k, alg) ==
    IF FitRejects(X, k, alg) THEN {Raised("ValueError", <<>>, FALSE)}
    ELSE UNION {
        IF WantsSilhouette(labels)
        THEN IF SilhouetteRejects(X, labels)
             THEN {Raised("ValueError", labels, TRUE)}
             ELSE IF Len(chs) > Len(labels)
                  THEN {Raised("IndexError", labels, TRUE)}
                  ELSE {Returned(ClusterResult(X, chs, k, alg, labels, PyFloat(s)), TRUE)
                            : s \in SilhouetteValues}
        ELSE IF Len(chs) > Len(labels)
             THEN {Raised("IndexError", labels, FALSE)}
             ELSE {Returned(ClusterResult(X, chs, k, alg, labels, PyNone), FALSE)}
        : labels \in FittedLabels(X, k, alg)}

(***************************************************************************)
(* Inputs.  The channel records the runs draw from, each with the feature  *)
(* row the vectorizer gave it.  Engagement values are in hundredths.       *)
(***************************************************************************)
ChannelPool == <<
    [rec |-> [channel_id |-> <<"a">>,
              title |-> <<"X","b","o","x">>,
              description |-> <<"g","a","m","i","n","g"," ","f","u","n">>,
              subscriber_count |-> PyInt(120), video_count |-> PyInt(7),
              view_count |-> PyInt(70),
              avg_views_per_video |-> 10, avg_likes_per_video |-> 2,
              avg_comments_per_video |-> 1, engagement_rate |-> 3],
     row |-> <<0, 0, 0>>],
    [rec |-> [channel_id |-> <<"b">>,
              title |-> <<"A","r","t">>,
              description |-> <<>>,
              subscriber_count |-> PyInt(5),
              avg_views_per_video |-> 4, avg_likes_per_video |-> 0,
              avg_comments_per_video |-> 0, engagement_rate |-> 1],
     row |-> <<3, 1, 2>>],
    [rec |-> [channel_id |-> <<"c">>,
              title |-> <<"Q","z">>,
              description |-> <<"h","m">>],
     row |-> <<1, 4, 0>>],
    [rec |-> [title |-> <<"C","a","r">>,
              description |-> <<"a","r","t">>,
              avg_views_per_video |-> 0, avg_likes_per_video |-> 0,
              avg_comments_per_video |-> 0, engagement_rate |-> 0],
     row |-> <<2, 2, 5>>] >>

\* bounds of the cluster-engine runs
MaxChannels == 6
MaxClusters == 3

\* the cluster-engine runs draw from two records with different rows
ClusterPool == {1, 2}

AlgorithmNames == {<<"k","m","e","a","n","s">>, <<"d","b","s","c","a","n">>,
                   <<"D","B","S","C","A","N">>}

\* the i-th subscription's identifier, unique in the list
PositionId(i) == <<"U","C">> \o Str(i)

\* an empty data directory
NoFiles == [name \in {} |-> <<>>]

Idle ==
    /\ files = NoFiles /\ loaded = PyNone /\ viz = PyNone /\ lookups = <<>>
    /\ subscription_graph = <<>>
    /\ weight = 0
    /\ enhanced_embeddings = PyNone
    /\ search = PyNone
    /\ vec = PyNone

\* a run of create_clusters on N >= 2 channels and their N x D matrix, D in {2, 3}
Init ==
    /\ \E N \in 2..MaxChannels : \E pick \in [1..N -> ClusterPool] : \E D \in {2, 3} :
          /\ channels = [i \in 1..N |->
                            [ChannelPool[pick[i]].rec EXCEPT !.channel_id = PositionId(i)]]
          /\ embeddings = [i \in 1..N |-> SubSeq(ChannelPool[pick[i]].row, 1, D)]
    /\ n_clusters \in 1..MaxClusters
    /\ algorithm \in AlgorithmNames
    /\ clusters = PyNone
    /\ pc = "create_clusters"
    /\ Idle

CreateClusters ==
    /\ pc = "create_clusters"
    /\ clusters' \in create_clusters(embeddings, channels, n_clusters, algorithm)
    /\ pc' = "created"
    /\ UNCHANGED <<lookups, files, loaded, viz, channels, embeddings, n_clusters, algorithm, subscription_graph,
                   weight, enhanced_embeddings, search, vec>>

Next == CreateClusters

Spec == Init /\ [][Next]_vars

(***************************************************************************)
(* Claims about create_clusters                                            *)
(***************************************************************************)
RECURSIVE GroupSizeSum(_, _)
GroupSizeSum(groups, keys) ==
    IF keys = {} THEN 0
    ELSE LET key == CHOOSE k \in keys : TRUE
         IN Len(groups[key]) + GroupSizeSum(groups, keys \ {key})

\* the places <<key, position>> of the grouping that hold the channel with this id
PlacesOf(groups, id) ==
    {place \in UNION {{<<key, j>> : j \in 1..Len(groups[key])} : key \in DOMAIN groups} :
        groups[place[1]][place[2]].channel_id = id}

NoiseKey == <<"-","1">>

\* C1: in the grouping create_clusters returns, every input channel is in
\* exactly one group, the group keyed by str(its label) (the noise label -1
\* under the one key "-1"), and the group sizes add up to N.
C1_PartitionLaw ==
    (pc = "created" /\ clusters.status = "ok") =>
        LET groups == clusters.value.channels
            labels == clusters.value.labels
            N == Len(channels)
        IN /\ Len(labels) = N
           /\ GroupSizeSum(groups, DOMAIN groups) = N
           /\ \A i \in 1..N :
                 /\ Cardinality(PlacesOf(groups, channels[i].channel_id)) = 1
                 /\ \A place \in PlacesOf(groups, channels[i].channel_id) :
                       place[1] = Str(labels[i])
                 /\ (labels[i] = -1) <=>
                       (\E place \in PlacesOf(groups, channels[i].channel_id) :
                           place[1] = NoiseKey)

\* a returned grouping with a noise bucket and a group beside it
C1_Witness ==
    /\ pc = "created" /\ clusters.status = "ok"
    /\ NoiseKey \in DOMAIN clusters.value.channels
    /\ Cardinality(DOMAIN clusters.value.channels) = 2
    /\ Len(clusters.value.channels[NoiseKey]) = 1
    /\ Len(channels) = 6

NonNoiseGroups(labels) == Cardinality(SetOfSeq(labels) \ {-1})

C9_TooManyClustersRejected ==
    (pc = "created" /\ ~IsDBSCAN(algorithm) /\ n_clusters > Len(embeddings)) =>
        /\ clusters.status = "error"
        /\ clusters.error = "ValueError"
        /\ clusters.value = PyNone

C9_Witness ==
    /\ pc = "created" /\ ~IsDBSCAN(algorithm) /\ n_clusters > Len(embeddings)
    /\ clusters.status = "error"

(***************************************************************************)
(* enhanced_clustering.py: name_clusters                                   *)
(***************************************************************************)
\* lines 26-44
TOPIC_MAP == <<
    [category |-> <<"M","u","s","i","c">>,
     keywords |-> <<<<"m","u","s","i","c">>, <<"b","a","n","d">>, <<"s","o","n","g">>, <<"s","i","n","g","e","r">>, <<"r","a","p","p","e","r">>, <<"a","r","t","i","s","t">>, <<"p","i","a","n","o">>, <<"g","u","i","t","a","r">>, <<"d","r","u","m">>>>],
    [category |-> <<"G","a","m","i","n","g">>,
     keywords |-> <<<<"g","a","m","e">>, <<"g","a","m","i","n","g">>, <<"p","l","a","y","t","h","r","o","u","g","h">>, <<"m","i","n","e","c","r","a","f","t">>, <<"f","o","r","t","n","i","t","e">>, <<"g","a","m","e","r">>, <<"x","b","o","x">>, <<"p","l","a","y","s","t","a","t","i","o","n">>, <<"n","i","n","t","e","n","d","o">>>>],
    [category |-> <<"T","e","c","h","n","o","l","o","g","y">>,
     keywords |-> <<<<"t","e","c","h">>, <<"t","e","c","h","n","o","l","o","g","y">>, <<"p","r","o","g","r","a","m","m","i","n","g">>, <<"c","o","d","e">>, <<"d","e","v","e","l","o","p","e","r">>, <<"c","o","m","p","u","t","e","r">>, <<"s","o","f","t","w","a","r","e">>, <<"h","a","r","d","w","a","r","e">>>>],
    [category |-> <<"S","c","i","e","n","c","e">>,
     keywords |-> <<<<"s","c","i","e","n","c","e">>, <<"p","h","y","s","i","c","s">>, <<"c","h","e","m","i","s","t","r","y">>, <<"b","i","o","l","o","g","y">>, <<"a","s","t","r","o","n","o","m","y">>, <<"s","p","a","c","e">>, <<"e","x","p","e","r","i","m","e","n","t">>>>],
    [category |-> <<"E","d","u","c","a","t","i","o","n">>,
     keywords |-> <<<<"e","d","u","c","a","t","i","o","n">>, <<"l","e","a","r","n">>, <<"s","c","h","o","o","l">>, <<"u","n","i","v","e","r","s","i","t","y">>, <<"c","o","l","l","e","g","e">>, <<"a","c","a","d","e","m","i","c">>, <<"l","e","c","t","u","r","e">>, <<"c","o","u","r","s","e">>>>],
    [category |-> <<"E","n","t","e","r","t","a","i","n","m","e","n","t">>,
     keywords |-> <<<<"e","n","t","e","r","t","a","i","n","m","e","n","t">>, <<"f","u","n","n","y">>, <<"c","o","m","e","d","y">>, <<"p","r","a","n","k">>, <<"s","k","i","t">>, <<"h","u","m","o","r">>>>],
    [category |-> <<"N","e","w","s">>,
     keywords |-> <<<<"n","e","w","s">>, <<"p","o","l","i","t","i","c","s">>, <<"c","u","r","r","e","n","t"," ","e","v","e","n","t","s">>, <<"j","o","u","r","n","a","l","i","s","t">>, <<"r","e","p","o","r","t">>>>],
    [category |-> <<"S","p","o","r","t","s">>,
     keywords |-> <<<<"s","p","o","r","t","s">>, <<"f","o","o","t","b","a","l","l">>, <<"b","a","s","k","e","t","b","a","l","l">>, <<"s","o","c","c","e","r">>, <<"b","a","s","e","b","a","l","l">>, <<"n","f","l">>, <<"n","b","a">>, <<"f","i","t","n","e","s","s">>>>],
    [category |-> <<"A","r","t">>,
     keywords |-> <<<<"a","r","t">>, <<"d","r","a","w","i","n","g">>, <<"p","a","i","n","t","i","n","g">>, <<"a","n","i","m","a","t","i","o","n">>, <<"d","e","s","i","g","n">>, <<"c","r","e","a","t","i","v","e">>>>],
    [category |-> <<"F","o","o","d">>,
     keywords |-> <<<<"f","o","o","d">>, <<"c","o","o","k","i","n","g">>, <<"r","e","c","i","p","e">>, <<"c","h","e","f">>, <<"b","a","k","i","n","g">>, <<"c","u","i","s","i","n","e">>, <<"r","e","s","t","a","u","r","a","n","t">>>>],
    [category |-> <<"F","a","s","h","i","o","n">>,
     keywords |-> <<<<"f","a","s","h","i","o","n">>, <<"c","l","o","t","h","i","n","g">>, <<"s","t","y","l","e">>, <<"b","e","a","u","t","y">>, <<"m","a","k","e","u","p">>, <<"m","o","d","e","l">>>>],
    [category |-> <<"T","r","a","v","e","l">>,
     keywords |-> <<<<"t","r","a","v","e","l">>, <<"v","l","o","g">>, <<"a","d","v","e","n","t","u","r","e">>, <<"t","o","u","r","i","s","m">>, <<"e","x","p","l","o","r","e">>, <<"d","e","s","t","i","n","a","t","i","o","n">>>>],
    [category |-> <<"A","u","t","o","m","o","t","i","v","e">>,
     keywords |-> <<<<"c","a","r">>, <<"a","u","t","o">>, <<"v","e","h","i","c","l","e">>, <<"m","o","t","o","r","c","y","c","l","e">>, <<"r","a","c","i","n","g">>, <<"e","n","g","i","n","e">>>>],
    [category |-> <<"F","i","n","a","n","c","e">>,
     keywords |-> <<<<"f","i","n","a","n","c","e">>, <<"m","o","n","e","y">>, <<"i","n","v","e","s","t","i","n","g">>, <<"s","t","o","c","k">>, <<"c","r","y","p","t","o">>, <<"b","i","t","c","o","i","n">>, <<"b","u","s","i","n","e","s","s">>>>],
    [category |-> <<"D","I","Y">>,
     keywords |-> <<<<"d","i","y">>, <<"c","r","a","f","t">>, <<"h","o","w"," ","t","o">>, <<"t","u","t","o","r","i","a","l">>, <<"w","o","o","d","w","o","r","k","i","n","g">>, <<"m","a","k","e","r">>, <<"b","u","i","l","d">>>>],
    [category |-> <<"L","i","f","e","s","t","y","l","e">>,
     keywords |-> <<<<"l","i","f","e","s","t","y","l","e">>, <<"m","i","n","i","m","a","l","i","s","m">>, <<"p","r","o","d","u","c","t","i","v","i","t","y">>, <<"s","e","l","f","-","i","m","p","r","o","v","e","m","e","n","t">>, <<"m","o","t","i","v","a","t","i","o","n">>>>],
    [category |-> <<"H","i","s","t","o","r","y">>,
     keywords |-> <<<<"h","i","s","t","o","r","y">>, <<"h","i","s","t","o","r","i","c","a","l">>, <<"a","n","c","i","e","n","t">>, <<"m","e","d","i","e","v","a","l">>, <<"c","i","v","i","l","i","z","a","t","i","o","n">>, <<"w","a","r">>>>] >>

RECURSIVE GCD(_, _)
GCD(a, b) == IF b = 0 THEN a ELSE GCD(b, a % b)

\* the rational n / d in lowest terms, d > 0
Rat(n, d) ==
    LET an == IF n < 0 THEN 0 - n ELSE n
        ad == IF d < 0 THEN 0 - d ELSE d
        g == GCD(an, ad)
        sign == IF (n < 0) # (d < 0) THEN -1 ELSE 1
    IN [num |-> sign * (an \div g), den |-> ad \div g]

\* f"{value}" of a str or None
Format(v) == IF v = NoneStr THEN <<"N","o","n","e">> ELSE v

\* str.count(sub): the non-overlapping occurrences, left to right
RECURSIVE Count(_, _, _)
Count(text, sub, from) ==
    IF from + Len(sub) - 1 > Len(text) THEN 0
    ELSE IF text[from] = sub[1] /\ SubSeq(text, from, from + Len(sub) - 1) = sub
         THEN 1 + Count(text, sub, from + Len(sub))
         ELSE Count(text, sub, from + 1)

\* list.count(x)
ListCount(list, x) == Cardinality({i \in 1..Len(list) : list[i] = x})

\* " ".join(parts)
RECURSIVE Join(_)
Join(parts) ==
    IF parts = <<>> THEN <<>>
    ELSE IF Len(parts) = 1 THEN parts[1]
    ELSE parts[1] \o <<" ">> \o Join(Tail(parts))

RECURSIVE Flatten(_)
Flatten(lists) == IF lists = <<>> THEN <<>> ELSE Head(lists) \o Flatten(Tail(lists))

\* sorted(values): ascending, stable
SortedSeq(values) ==
    LET n == Len(values)
        rank(i) == 1 + Cardinality({j \in 1..n :
                        values[j] < values[i] \/ (values[j] = values[i] /\ j < i)})
    IN [r \in 1..n |-> values[CHOOSE i \in 1..n : rank(i) = r]]

\* 4 * np.percentile(values, q) for q in {25, 50, 75}: linear interpolation
\* between the two nearest ranks
Percentile4(values, q) ==
    LET a == SortedSeq(values)
        pos4 == (q \div 25) * (Len(a) - 1)
        lo == pos4 \div 4
        frac4 == pos4 % 4
    IN IF frac4 = 0 THEN 4 * a[lo + 1]
       ELSE 4 * a[lo + 1] + frac4 * (a[lo + 2] - a[lo + 1])

\* lines 239-254: the cut points, in 1/400 (engagement rates are in 1/100)
EngagementThresholds(groups) ==
    LET rates(key) == [j \in 1..Len(groups[key]) |->
                          IF "engagement_rate" \in DOMAIN groups[key][j]
                          THEN <<groups[key][j].engagement_rate>> ELSE <<>>]
        RECURSIVE Collect(_)
        Collect(keys) == IF keys = {} THEN <<>>
                         ELSE LET key == CHOOSE k \in keys : TRUE
                              IN Flatten(rates(key)) \o Collect(keys \ {key})
        all_engagement_rates == Collect(DOMAIN groups)
    IN IF all_engagement_rates # <<>>
       THEN [high |-> Percentile4(all_engagement_rates, 75),
             medium |-> Percentile4(all_engagement_rates, 50),
             low |-> Percentile4(all_engagement_rates, 25)]
       ELSE [high |-> 40, medium |-> 20, low |-> 4]

\* lines 259-272: the lowercased text of a group
CombinedText(cluster_channels) ==
    Join([j \in 1..Len(cluster_channels) |->
            Lower(Format(Get(cluster_channels[j], "title", <<>>)) \o <<" ">>
                  \o Format(Get(cluster_channels[j], "description", <<>>)))])

\* lines 267-269
AllKeywords(cluster_channels) ==
    Flatten([j \in 1..Len(cluster_channels) |->
                IF "keywords" \in DOMAIN cluster_channels[j]
                THEN [k \in 1..Len(cluster_channels[j].keywords) |->
                         Lower(cluster_channels[j].keywords[k])]
                ELSE <<>>])

\* lines 279-288: the score of every category, in TOPIC_MAP order
CategoryScores(cluster_channels) ==
    LET combined_text == CombinedText(cluster_channels)
        all_keywords == AllKeywords(cluster_channels)
    IN [c \in 1..Len(TOPIC_MAP) |->
          SumSeq([k \in 1..Len(TOPIC_MAP[c].keywords) |->
                    Count(combined_text, Lower(TOPIC_MAP[c].keywords[k]), 1)
                    + ListCount(all_keywords, Lower(TOPIC_MAP[c].keywords[k])) * 2])]

\* line 291: sorted(category_scores.items(), key=score, reverse=True), stable
TopCategories(scores) ==
    LET n == Len(scores)
        rank(c) == 1 + Cardinality({d \in 1..n :
                        scores[d] > scores[c] \/ (scores[d] = scores[c] /\ d < c)})
    IN [r \in 1..n |->
          LET c == CHOOSE d \in 1..n : rank(d) = r
          IN [category |-> TOPIC_MAP[c].category, score |-> scores[c]]]

\* lines 305-310, 323-324: avg_engagement = rate_sum / size against the cut points
EngagementLevel(rate_sum, size, thresholds) ==
    IF 4 * rate_sum >= thresholds.high * size THEN <<"H","i","g","h">>
    ELSE IF 4 * rate_sum >= thresholds.medium * size THEN <<"M","e","d","i","u","m">>
    ELSE <<"L","o","w">>

\* line 294: some category was found
HasCategoryMutant(top_categories) ==
    top_categories # <<>> /\ top_categories[1].score >= 0

HasCategory(top_categories) ==
    top_categories # <<>> /\ top_categories[1].score > 0

\* line 299: the second category is significant
HasSecondaryMutant(top_categories) ==
    Len(top_categories) > 1 /\ 10 * top_categories[2].score > 8 * top_categories[1].score

HasSecondary(top_categories) ==
    Len(top_categories) > 1 /\ 10 * top_categories[2].score > 6 * top_categories[1].score

\* lines 293-313
ClusterNameMutant(cluster_label, top_categories, level) ==
    IF HasCategory(top_categories) THEN top_categories[1].category
    ELSE <<"C","l","u","s","t","e","r"," ">> \o cluster_label

ClusterName(cluster_label, top_categories, level) ==
    IF HasCategory(top_categories)
    THEN (IF HasSecondary(top_categories)
          THEN top_categories[1].category \o <<" ","&"," ">> \o top_categories[2].category
          ELSE top_categories[1].category)
         \o <<" ","(">> \o level \o <<" ","E","n","g","a","g","e","m","e","n","t",")">>
    ELSE <<"C","l","u","s","t","e","r"," ">> \o cluster_label

\* lines 256-325: the name and the metadata of one group
NameOneCluster(cluster_label, cluster_channels, thresholds) ==
    LET rate_sum == SumSeq([j \in 1..Len(cluster_channels) |->
                              Get(cluster_channels[j], "engagement_rate", 0)])
        size == Len(cluster_channels)
        top_categories == TopCategories(CategoryScores(cluster_channels))
        level == EngagementLevel(rate_sum, size, thresholds)
    IN [name |-> ClusterName(cluster_label, top_categories, level),
        metadata |-> [avg_engagement |-> IF size > 0 THEN Rat(rate_sum, size) ELSE Rat(0, 1),
                      size |-> size,
                      top_categories |-> [r \in 1..3 |-> top_categories[r].category],
                      engagement_level |-> level]]

\* name_clusters(clusters, channels): lines 227-327
name_clusters(result, chs) ==
    IF "channels" \notin DOMAIN result THEN result
    ELSE LET groups == result.channels
             thresholds == EngagementThresholds(groups)
             named == [key \in DOMAIN groups |-> NameOneCluster(key, groups[key], thresholds)]
         IN [cluster_names |-> [key \in DOMAIN groups |-> named[key].name],
             cluster_metadata |-> [key \in DOMAIN groups |-> named[key].metadata]]
            @@ result

(***************************************************************************)
(* The naming run of enhanced_clustering.main: create_clusters, then       *)
(* name_clusters on its result.                                            *)
(***************************************************************************)
MaxNamed == 3

InitNamer ==
    /\ \E N \in 2..MaxNamed : \E pick \in [1..N -> 1..Len(ChannelPool)] :
          /\ \A i, j \in 1..N : pick[i] = pick[j] => i = j
          /\ channels = [i \in 1..N |-> ChannelPool[pick[i]].rec]
          /\ embeddings = [i \in 1..N |-> ChannelPool[pick[i]].row]
    /\ n_clusters \in {1, 2}
    /\ algorithm \in AlgorithmNames
    /\ clusters = PyNone
    /\ pc = "create_clusters"
    /\ Idle

NameClusters ==
    /\ pc = "created"
    /\ clusters.status = "ok"
    /\ clusters' = [clusters EXCEPT !.value = name_clusters(clusters.value, channels)]
    /\ pc' = "named"
    /\ UNCHANGED <<lookups, files, loaded, viz, channels, embeddings, n_clusters, algorithm, subscription_graph,
                   weight, enhanced_embeddings, search, vec>>

NextNamer == CreateClusters \/ NameClusters

SpecNamer == InitNamer /\ [][NextNamer]_vars

(***************************************************************************)
(* Claims about name_clusters                                              *)
(***************************************************************************)
Contains(text, sub) ==
    \E i \in 1..(Len(text) - Len(sub) + 1) : SubSeq(text, i, i + Len(sub) - 1) = sub

MatchesNoKeyword(text) ==
    \A c \in 1..Len(TOPIC_MAP) : \A k \in 1..Len(TOPIC_MAP[c].keywords) :
        ~Contains(text, TOPIC_MAP[c].keywords[k])

\* the lowercased "title description" of the input channels labelled key, joined
RECURSIVE MemberTexts(_, _, _)
MemberTexts(i, labels, key) ==
    IF i > Len(channels) THEN <<>>
    ELSE (IF Str(labels[i]) = key
          THEN <<Lower(channels[i].title \o <<" ">> \o channels[i].description)>>
          ELSE <<>>) \o MemberTexts(i + 1, labels, key)

GroupText(key) == Join(MemberTexts(1, clusters.labels, key))

FallbackName(key) == <<"C","l","u","s","t","e","r"," ">> \o key

\* C7: a group whose members' combined lowercased title+description text
\* contains no taxonomy keyword is named exactly "Cluster <label>".
C7_NamerFallback ==
    pc = "named" =>
        \A key \in DOMAIN clusters.value.channels :
            MatchesNoKeyword(GroupText(key)) =>
                clusters.value.cluster_names[key] = FallbackName(key)

\* a group without any keyword beside a group that got a category
C7_Witness ==
    /\ pc = "named"
    /\ \E key \in DOMAIN clusters.value.channels :
          /\ MatchesNoKeyword(GroupText(key))
          /\ clusters.value.cluster_names[key] = <<"C","l","u","s","t","e","r"," ","1">>
    /\ \E key \in DOMAIN clusters.value.channels :
          /\ ~MatchesNoKeyword(GroupText(key))
          /\ clusters.value.cluster_names[key] # FallbackName(key)

(***************************************************************************)
(* enhanced_clustering.py: enhance_embeddings_with_relationships           *)
(* Matrix entries are exact rationals.  The standardized engagement        *)
(* features, which need a square root, are fixed-point numbers with        *)
(* FixedPoint units to 1.                                                  *)
(***************************************************************************)
FixedPoint == 100

RatAdd(p, q) ==
    LET l == (p.den \div GCD(p.den, q.den)) * q.den
    IN Rat(p.num * (l \div p.den) + q.num * (l \div q.den), l)

RatMul(p, q) == Rat(p.num * q.num, p.den * q.den)

\* np.mean(rows, axis=0) of a non-empty list of rows
MeanRowsMutant(rows) ==
    LET RECURSIVE ColumnSum(_, _)
        ColumnSum(k, d) == IF k = 0 THEN Rat(0, 1)
                           ELSE RatAdd(rows[k][d], ColumnSum(k - 1, d))
    IN ListOf(LAMBDA d : ColumnSum(Len(rows), d), Len(rows[1]))

MeanRows(rows) ==
    LET RECURSIVE ColumnSum(_, _)
        ColumnSum(k, d) == IF k = 0 THEN Rat(0, 1)
                           ELSE RatAdd(rows[k][d], ColumnSum(k - 1, d))
    IN ListOf(LAMBDA d : RatMul(ColumnSum(Len(rows), d), Rat(1, Len(rows))), Len(rows[1]))

\* the largest r in lo..hi with r * r <= v
RECURSIVE ISqrt(_, _, _)
ISqrt(v, lo, hi) ==
    IF lo = hi THEN lo
    ELSE LET mid == (lo + hi + 1) \div 2
         IN IF mid * mid <= v THEN ISqrt(v, mid, hi) ELSE ISqrt(v, lo, mid - 1)

\* line 106: channel_id -> index, for the channels that have an id; the
\* last record with an id wins
ChannelIdToIndex(chs) ==
    LET HasId(i) == Get(chs[i], "channel_id", NoneStr) \notin {NoneStr, <<>>}
        ids == {chs[i].channel_id : i \in {j \in 1..Len(chs) : HasId(j)}}
    IN [id \in ids |->
          CHOOSE i \in 1..Len(chs) :
              /\ HasId(i) /\ chs[i].channel_id = id
              /\ \A j \in 1..Len(chs) : (HasId(j) /\ chs[j].channel_id = id) => j <= i]

\* lines 112-119
EngagementFeatures(chs) ==
    ListOf(LAMBDA i : <<Get(chs[i], "avg_views_per_video", 0),
                        Get(chs[i], "avg_likes_per_video", 0),
                        Get(chs[i], "avg_comments_per_video", 0),
                        Get(chs[i], "engagement_rate", 0)>>, Len(chs))

\* line 122, numerators: n * (x - mean) for every entry, n the row count
Deviations(features) ==
    ListOf(LAMBDA i :
             ListOf(LAMBDA c : Len(features) * features[i][c]
                               - SumSeq(ListOf(LAMBDA j : features[j][c], Len(features))), 4),
           Len(features))

\* line 122, denominators: n * std of every column, in fixed point
ColumnStd(dev) ==
    ListOf(LAMBDA c :
             ISqrt((FixedPoint * FixedPoint
                      * SumSeq(ListOf(LAMBDA i : dev[i][c] * dev[i][c], Len(dev))))
                     \div Len(dev), 0, 46340), 4)

\* line 122: (x - mean) / (std + 1e-8) in fixed point, truncated towards 0;
\* a constant column gives 0 / (0 + 1e-8) = 0
Standardized(d, std) ==
    IF std = 0 THEN 0
    ELSE IF d < 0 THEN 0 - (((0 - d) * FixedPoint * FixedPoint) \div std)
    ELSE (d * FixedPoint * FixedPoint) \div std

\* lines 126-127: engagement_embeddings = embeddings * engagement_weights,
\* the weight of a row being the mean of its 4 standardized features
WeightedRows(XR, dev, std) ==
    ListOf(LAMBDA i :
             ListOf(LAMBDA d :
                      RatMul(XR[i][d],
                             Rat(SumSeq(ListOf(LAMBDA c : Standardized(dev[i][c], std[c]), 4)),
                                 4 * FixedPoint)),
                    Len(XR[i])),
           Len(XR))

\* lines 112-127
EngagementEmbeddings(XR, chs) ==
    WeightedRows(XR, Deviations(EngagementFeatures(chs)),
                 ColumnStd(Deviations(EngagementFeatures(chs))))

\* lines 139-143: the indices of the targets that are channels of this run
RECURSIVE ResolvedTargetsMutant(_, _)
ResolvedTargetsMutant(subscribed_to, index) ==
    IF subscribed_to = <<>> THEN <<>>
    ELSE <<IF Head(subscribed_to) \in DOMAIN index THEN index[Head(subscribed_to)] ELSE 1>>
         \o ResolvedTargetsMutant(Tail(subscribed_to), index)

RECURSIVE ResolvedTargets(_, _)
ResolvedTargets(subscribed_to, index) ==
    IF subscribed_to = <<>> THEN <<>>
    ELSE (IF Head(subscribed_to) \in DOMAIN index
          THEN <<index[Head(subscribed_to)]>> ELSE <<>>)
         \o ResolvedTargets(Tail(subscribed_to), index)

\* line 142: the rows the targets contribute are rows of the input matrix
TargetRowsMutant(XR, enhanced, targets) ==
    ListOf(LAMBDA k : enhanced[targets[k]], Len(targets))

TargetRows(XR, enhanced, targets) == ListOf(LAMBDA k : XR[targets[k]], Len(targets))

\* lines 154-158: the blend, weight w in tenths
BlendMutant(w, original, avg_sub_embedding, avg_sub_engagement) ==
    ListOf(LAMBDA d :
             RatAdd(RatAdd(RatMul(Rat(10 - w, 10), original[d]),
                           RatMul(Rat(7 * w, 100), avg_sub_embedding[d])),
                    RatMul(Rat(3, 10), avg_sub_engagement[d])),
           Len(original))

Blend(w, original, avg_sub_embedding, avg_sub_engagement) ==
    ListOf(LAMBDA d :
             RatAdd(RatAdd(RatMul(Rat(10 - w, 10), original[d]),
                           RatMul(Rat(7 * w, 100), avg_sub_embedding[d])),
                    RatMul(Rat(3 * w, 100), avg_sub_engagement[d])),
           Len(original))

\* lines 130-158: one pass of the loop over the graph's entries; index is
\* channel_id_to_index, EE is engagement_embeddings
EnhanceEntry(entry, XR, index, EE, w, enhanced) ==
    LET targets == ResolvedTargets(entry[2], index)
    IN IF entry[1] \notin DOMAIN index \/ targets = <<>> THEN enhanced
       ELSE [enhanced EXCEPT ![index[entry[1]]] =
                Blend(w, XR[index[entry[1]]],
                      MeanRows(TargetRows(XR, enhanced, targets)),
                      MeanRows(ListOf(LAMBDA k : EE[targets[k]], Len(targets))))]

RECURSIVE EnhanceLoop(_, _, _, _, _, _)
EnhanceLoop(graph, XR, index, EE, w, enhanced) ==
    IF graph = <<>> THEN enhanced
    ELSE EnhanceLoop(Tail(graph), XR, index, EE, w,
                     EnhanceEntry(Head(graph), XR, index, EE, w, enhanced))

\* enhance_embeddings_with_relationships(embeddings, channels,
\* subscription_graph, weight): lines 98-160
enhance_embeddings_with_relationships(X, chs, graph, w) ==
    LET XR == ListOf(LAMBDA i : ListOf(LAMBDA d : Rat(X[i][d], 1), Len(X[i])), Len(X))
    IN EnhanceLoop(graph, XR, ChannelIdToIndex(chs), EngagementEmbeddings(XR, chs), w, XR)

\* line 109: enhanced_embeddings = embeddings.copy() is a new array, and the
\* rows assigned at line 154 are rows of it
EnhancedArrayMutant(X) == "embeddings"

EnhancedArray(X) == "enhanced_embeddings"

\* the input matrix after the call: its rows are assigned only where
\* enhanced_embeddings is the input array itself (entries by their integer part)
EmbeddingsAfterEnhance(X, chs, graph, w) ==
    IF EnhancedArray(X) = "embeddings"
    THEN LET enhanced == enhance_embeddings_with_relationships(X, chs, graph, w)
         IN [i \in 1..Len(X) |->
               [d \in 1..Len(X[i]) |-> enhanced[i][d].num \div enhanced[i][d].den]]
    ELSE X

(***************************************************************************)
(* Runs of the enhancer                                                    *)
(***************************************************************************)
MaxEnhanced == 3
MaxTargets == 2

GraphIds == {<<"a">>, <<"b">>, <<"c">>}
GraphKeys == {<<"a">>, <<"b">>}
EnhanceWeights == {0, 3, 10}

IdOrder(id) == CHOOSE k \in 1..3 : <<<<"a">>, <<"b">>, <<"c">>>>[k] = id

\* target lists up to the order of their entries, which no mean depends on
TargetLists ==
    UNION {{t \in [1..n -> GraphIds] :
               \A i, j \in 1..n : i < j => IdOrder(t[i]) <= IdOrder(t[j])} :
           n \in 0..MaxTargets}

Graphs ==
    {<<>>}
    \cup {<<<<key, targets>>>> : key \in GraphKeys, targets \in TargetLists}
    \cup {<<<<k1, t1>>, <<k2, t2>>>> :
             <<k1, t1, k2, t2>> \in {q \in GraphKeys \X TargetLists \X GraphKeys \X TargetLists :
                                        q[1] # q[3]}}

InitEnhance ==
    /\ \E N \in 1..MaxEnhanced : \E pick \in [1..N -> 1..Len(ChannelPool)] :
          /\ \A i, j \in 1..N : i < j => pick[i] < pick[j]
          /\ channels = [i \in 1..N |-> ChannelPool[pick[i]].rec]
          /\ embeddings = [i \in 1..N |-> ChannelPool[pick[i]].row]
    /\ subscription_graph \in Graphs
    /\ weight \in EnhanceWeights
    /\ enhanced_embeddings = PyNone
    /\ n_clusters = 0 /\ algorithm = <<>> /\ clusters = PyNone
    /\ search = PyNone /\ vec = PyNone
    /\ files = NoFiles /\ loaded = PyNone /\ viz = PyNone /\ lookups = <<>>
    /\ pc = "enhance"

Enhance ==
    /\ pc = "enhance"
    /\ enhanced_embeddings' =
          enhance_embeddings_with_relationships(embeddings, channels, subscription_graph, weight)
    /\ embeddings' = EmbeddingsAfterEnhance(embeddings, channels, subscription_graph, weight)
    /\ pc' = "enhanced"
    /\ UNCHANGED <<lookups, files, loaded, viz, channels, n_clusters, algorithm, subscription_graph,
                   weight, clusters, search, vec>>

NextEnhance == Enhance

SpecEnhance == InitEnhance /\ [][NextEnhance]_vars

(***************************************************************************)
(* Claims about enhance_embeddings_with_relationships                      *)
(***************************************************************************)
IdOf(i) == Get(channels[i], "channel_id", NoneStr)

IsChannelOfRun(id) == \E j \in 1..Len(channels) : IdOf(j) = id

\* the target list the graph gives channel i (empty without an entry)
TargetsOf(i) ==
    IF \E e \in 1..Len(subscription_graph) : subscription_graph[e][1] = IdOf(i)
    THEN subscription_graph[CHOOSE e \in 1..Len(subscription_graph) :
                                subscription_graph[e][1] = IdOf(i)][2]
    ELSE <<>>

\* the rows of the targets of channel i that are channels of this run
ResolvableTargetsOf(i) ==
    LET known == SelectSeq(TargetsOf(i), IsChannelOfRun)
    IN [k \in 1..Len(known) |-> CHOOSE j \in 1..Len(channels) : IdOf(j) = known[k]]

InputRow(i) == [d \in 1..Len(embeddings[i]) |-> Rat(embeddings[i][d], 1)]

\* C3: the row of every channel without a resolvable outbound edge is
\* returned unchanged; with an empty graph the whole matrix is.
C3_UnresolvedRowsUnchanged ==
    pc = "enhanced" =>
        \A i \in 1..Len(channels) :
            ResolvableTargetsOf(i) = <<>> => enhanced_embeddings[i] = InputRow(i)

\* a channel whose only targets are no channels of the run, beside a
\* channel whose row was rewritten
C3_Witness ==
    /\ pc = "enhanced"
    /\ \E i \in 1..Len(channels) :
          /\ TargetsOf(i) # <<>> /\ ResolvableTargetsOf(i) = <<>>
          /\ enhanced_embeddings[i] = InputRow(i)
    /\ \E j \in 1..Len(channels) : enhanced_embeddings[j] # InputRow(j)

\* C4: with weight 0.0 every row of the result equals the input row, also
\* the rows of channels with resolvable outbound edges.
C4_WeightZeroIsIdentity ==
    (pc = "enhanced" /\ weight = 0) =>
        \A i \in 1..Len(channels) : enhanced_embeddings[i] = InputRow(i)

C4_Witness ==
    /\ pc = "enhanced" /\ weight = 0
    /\ \E i \in 1..Len(channels) :
          /\ Len(ResolvableTargetsOf(i)) = 2
          /\ enhanced_embeddings[i] = InputRow(i)

\* the engagement weight of row t, in 1 / (4 * FixedPoint)
EngagementWeightOf(t) ==
    LET dev == Deviations(EngagementFeatures(channels))
        std == ColumnStd(dev)
    IN SumSeq([c \in 1..4 |-> Standardized(dev[t][c], std[c])])

\* C5 as stated: the enhanced row is (1-weight)*original + weight*mean of
\* the original rows of the resolvable targets.
C5_Original ==
    pc = "enhanced" =>
        \A i \in 1..Len(channels) :
            LET T == ResolvableTargetsOf(i)
            IN T # <<>> =>
                \A d \in 1..Len(embeddings[i]) :
                    enhanced_embeddings[i][d] =
                        Rat((10 - weight) * Len(T) * embeddings[i][d]
                              + weight * SumSeq([k \in 1..Len(T) |-> embeddings[T[k]][d]]),
                            10 * Len(T))

\* C5 amended: the enhanced row is (1-weight)*original
\* + 0.7*weight*mean(original rows of the resolvable targets)
\* + 0.3*weight*mean(original rows of the resolvable targets, each times
\* the engagement weight of its channel).
C5_BlendWithEngagement ==
    pc = "enhanced" =>
        \A i \in 1..Len(channels) :
            LET T == ResolvableTargetsOf(i)
            IN T # <<>> =>
                \A d \in 1..Len(embeddings[i]) :
                    enhanced_embeddings[i][d] =
                        Rat((10 - weight) * 10 * 4 * FixedPoint * Len(T) * embeddings[i][d]
                              + 7 * weight * 4 * FixedPoint
                                  * SumSeq([k \in 1..Len(T) |-> embeddings[T[k]][d]])
                              + 3 * weight
                                  * SumSeq([k \in 1..Len(T) |->
                                              embeddings[T[k]][d] * EngagementWeightOf(T[k])]),
                            100 * 4 * FixedPoint * Len(T))

\* weight 1.0, two resolvable targets, and a row that is not their mean
C5_Witness ==
    /\ pc = "enhanced" /\ weight = 10
    /\ \E i \in 1..Len(channels) :
          LET T == ResolvableTargetsOf(i)
          IN /\ Len(T) = 2 /\ T[1] # T[2]
             /\ \E d \in 1..Len(embeddings[i]) :
                   enhanced_embeddings[i][d] # Rat(embeddings[T[1]][d] + embeddings[T[2]][d], 2)

GraphOrders(s) ==
    {[k \in 1..Len(s) |-> s[p[k]]] :
        p \in {q \in [1..Len(s) -> 1..Len(s)] : \A a, b \in 1..Len(s) : q[a] = q[b] => a = b}}

\* C6: the result is the same for every order of the graph's entries.
C6_OrderIndependent ==
    pc = "enhanced" =>
        \A graph \in GraphOrders(subscription_graph) :
            enhance_embeddings_with_relationships(embeddings, channels, graph, weight)
                = enhanced_embeddings

\* two channels that follow each other, both rewritten
C6_Witness ==
    /\ pc = "enhanced" /\ weight = 3
    /\ Len(subscription_graph) = 2
    /\ \E i, j \in 1..Len(channels) :
          /\ i # j
          /\ j \in SetOfSeq(ResolvableTargetsOf(i)) /\ i \in SetOfSeq(ResolvableTargetsOf(j))
          /\ enhanced_embeddings[i] # InputRow(i) /\ enhanced_embeddings[j] # InputRow(j)

(***************************************************************************)
(* find_optimal_weight (src/enhanced_clustering.py, lines 200-225)         *)
(***************************************************************************)
\* line 206: np.linspace(0.1, 0.5, 5), in tenths
SearchWeights == <<1, 2, 3, 4, 5>>

\* line 215: n_clusters=7
SearchClusters == 7

\* lines 207-208: best_score = -1 (in thousandths), best_weight = 0.3
SearchStart ==
    [i |-> 1, best_score |-> -1000, best_weight |-> 3, score |-> PyFloat(-1000),
     status |-> "running", error |-> "", value |-> PyNone]

\* line 216: clusters.get('silhouette_score', -1); the key is always present
ScoreOf(result) == Get(result, "silhouette_score", PyFloat(-1000))

\* line 218: f"{score:.3f}" formats a float and raises on None
FormatRaises(score) == score = PyNone

\* lines 210-222: one pass of the loop, given the outcome of create_clusters
SearchPass(s, outcome) ==
    IF outcome.status = "error"
    THEN [s EXCEPT !.status = "raised", !.error = outcome.error]
    ELSE LET score == ScoreOf(outcome.value)
         IN IF FormatRaises(score)
            THEN [s EXCEPT !.status = "raised", !.error = "TypeError", !.score = score]
            ELSE IF score.v > s.best_score
            THEN [s EXCEPT !.i = @ + 1, !.score = score,
                           !.best_score = score.v, !.best_weight = SearchWeights[s.i]]
            ELSE [s EXCEPT !.i = @ + 1, !.score = score]

(***************************************************************************)
(* Runs of the weight search                                               *)
(***************************************************************************)
MaxSearched == 7

SearchGraphs ==
    {g \in Graphs : Len(g) <= 1 /\ \A e \in 1..Len(g) : g[e][1] = <<"a">> /\ Len(g[e][2]) = 1}

InitSearch ==
    /\ \E N \in (SearchClusters - 1)..MaxSearched : \E pick \in [1..N -> ClusterPool] :
          /\ \A i, j \in 1..N : i < j => pick[i] <= pick[j]
          /\ channels = [i \in 1..N |-> ChannelPool[pick[i]].rec]
          /\ embeddings = [i \in 1..N |-> ChannelPool[pick[i]].row]
    /\ subscription_graph \in SearchGraphs
    /\ weight = 0 /\ n_clusters = SearchClusters /\ algorithm = <<"k", "m", "e", "a", "n", "s">>
    /\ enhanced_embeddings = PyNone /\ clusters = PyNone
    /\ search = SearchStart /\ vec = PyNone
    /\ files = NoFiles /\ loaded = PyNone /\ viz = PyNone /\ lookups = <<>>
    /\ pc = "find_optimal_weight"

\* lines 210-222: the pass for the next weight of the list; enhanced and
\* clusters are locals of the pass
SearchStep ==
    /\ pc = "find_optimal_weight" /\ search.status = "running"
    /\ search.i <= Len(SearchWeights)
    /\ \E outcome \in create_clusters(
              enhance_embeddings_with_relationships(embeddings, channels, subscription_graph,
                                                    SearchWeights[search.i]),
              channels, SearchClusters, algorithm) :
          search' = SearchPass(search, outcome)
    /\ embeddings' = EmbeddingsAfterEnhance(embeddings, channels, subscription_graph,
                                             SearchWeights[search.i])
    /\ UNCHANGED <<lookups, files, loaded, viz, channels, n_clusters, algorithm, subscription_graph, weight,
                   clusters, enhanced_embeddings, vec, pc>>

\* lines 224-225: the loop is over, best_weight is returned
SearchReturn ==
    /\ pc = "find_optimal_weight" /\ search.status = "running"
    /\ search.i > Len(SearchWeights)
    /\ search' = [search EXCEPT !.status = "returned", !.value = PyFloat(search.best_weight)]
    /\ pc' = "searched"
    /\ UNCHANGED <<lookups, files, loaded, viz, channels, embeddings, n_clusters, algorithm, subscription_graph, weight,
                   clusters, enhanced_embeddings, vec>>

NextSearch == SearchStep \/ SearchReturn

SpecSearch == InitSearch /\ [][NextSearch]_vars

\* C10: a candidate weight whose clustering has no quality score does not
\* end the search: the search does not raise on it, goes on to the remaining
\* candidates, and returns a weight.
C10_NoneScoreTolerated == search.score = PyNone => search.status # "raised"

\* what the code does: the first candidate without a score ends the search
\* with the TypeError of the format at line 218, and no weight is returned
C10_NoneScoreRaises ==
    search.score = PyNone =>
        (search.status = "raised" /\ search.error = "TypeError" /\ search.value = PyNone)

C10_Witness ==
    /\ search.score = PyNone /\ search.status = "raised" /\ search.error = "TypeError"
    /\ search.i > 1

(***************************************************************************)
(* clustering/vectorize.py: vectorize_channels                             *)
(***************************************************************************)
\* line 97
batch_size == 32

\* line 93: f"{channel.get('title', '')} {channel.get('description', '')}"
ChannelText(channel) ==
    Format(Get(channel, "title", <<>>)) \o <<" ">> \o Format(Get(channel, "description", <<>>))

\* SentenceTransformer.encode(batch): one row per text, in the order of the batch
Encode(batch) == ListOf(LAMBDA k : <<[t |-> "embedding", v |-> batch[k]]>>, Len(batch))

\* line 100: texts[i:i + batch_size], i counted from 0
BatchMutant(texts, i) ==
    SubSeq(texts, i + 1, IF i + batch_size - 1 < Len(texts) THEN i + batch_size - 1 ELSE Len(texts))

Batch(texts, i) ==
    SubSeq(texts, i + 1, IF i + batch_size < Len(texts) THEN i + batch_size ELSE Len(texts))

\* lines 98-102: the list of the batches' outputs
RECURSIVE EncodeBatches(_, _)
EncodeBatches(texts, i) ==
    IF i >= Len(texts) THEN <<>>
    ELSE <<Encode(Batch(texts, i))>> \o EncodeBatches(texts, i + batch_size)

\* line 106: np.vstack of a non-empty list of arrays
RECURSIVE VStack(_)
VStack(arrays) == IF arrays = <<>> THEN <<>> ELSE Head(arrays) \o VStack(Tail(arrays))

IsNumber(x) == x.t \in {"int", "float"}

\* lines 59-68: the values extract_metadata_features computes from numbers
MetadataRejects(channel) ==
    \/ ~IsNumber(Get(channel, "subscriber_count", PyInt(0)))
    \/ ~IsNumber(Get(channel, "video_count", PyInt(0)))
    \/ ~IsNumber(Get(channel, "view_count", PyInt(0)))

\* lines 71-73: re.search of the alternatives in the lowercased description
SearchAny(words, description) ==
    \E k \in 1..Len(words) : Contains(Lower(description), words[k])

SocialWords ==
    <<<<"t","w","i","t","t","e","r">>, <<"f","a","c","e","b","o","o","k">>,
      <<"i","n","s","t","a","g","r","a","m">>, <<"t","i","k","t","o","k">>>>

WebsiteWords == <<<<"h","t","t","p">>, <<"w","w","w">>>>

\* lines 52-75: list(features.values())
extract_metadata_features(channel) ==
    LET video_count == Get(channel, "video_count", PyInt(0)).v
    IN <<[t |-> "log1p", v |-> Get(channel, "subscriber_count", PyInt(0)).v],
         [t |-> "log1p", v |-> video_count],
         [t |-> "float", v |-> Rat(Get(channel, "view_count", PyInt(0)).v,
                                   IF video_count > 1 THEN video_count ELSE 1)],
         [t |-> "bool", v |-> SearchAny(SocialWords, Get(channel, "description", <<>>))],
         [t |-> "bool", v |-> SearchAny(WebsiteWords, Get(channel, "description", <<>>))]>>

MetadataWidth == 5

\* a value whose repeated sum and mean are computed without rounding
SumsExactly(x) ==
    \/ x.t = "bool"
    \/ x.t = "log1p" /\ x.v = 0
    \/ x.t = "float" /\ x.v.den = 1

IsConstantColumn(features, c) == \A i \in 1..Len(features) : features[i][c] = features[1][c]

\* the constant columns whose mean may differ from their value by rounding
RoundedColumns(features) ==
    {c \in 1..MetadataWidth : IsConstantColumn(features, c) /\ ~SumsExactly(features[1][c])}

\* line 116: metadata_features.std(axis=0), the divisor of column c: 0 for a
\* constant column, or, where the mean is rounded away from the value, the
\* rounding residue
ColumnDivisor(features, c, rounded) ==
    IF ~IsConstantColumn(features, c) THEN "std"
    ELSE IF c \in rounded THEN "residue" ELSE "zero"

\* line 116: (x - mean) / std, column by column, with no guard on std: the
\* division by 0 of a constant column is 0 / 0 and gives nan
Standardize(features, rounded) ==
    LET std == ListOf(LAMBDA c : ColumnDivisor(features, c, rounded), MetadataWidth)
    IN ListOf(LAMBDA i :
                ListOf(LAMBDA c :
                         [t |-> IF std[c] = "std" THEN "z"
                                ELSE IF std[c] = "residue" THEN "residue" ELSE "nan",
                          x |-> features[i][c]],
                       MetadataWidth),
              Len(features))

VecRaised(error) ==
    [status |-> "error", error |-> error, channels |-> <<>>, embeddings |-> <<>>, std |-> <<>>]

\* vectorize_channels(channels), lines 78-125: the set of its outcomes
vectorize_channels(chs) ==
    LET texts == ListOf(LAMBDA i : ChannelText(chs[i]), Len(chs))
        batches == EncodeBatches(texts, 0)
        content_embeddings == VStack(batches)
        features == ListOf(LAMBDA i : extract_metadata_features(chs[i]), Len(chs))
    IN IF batches = <<>> THEN {VecRaised("ValueError")}
       ELSE IF \E i \in 1..Len(chs) : MetadataRejects(chs[i]) THEN {VecRaised("TypeError")}
       ELSE IF Len(content_embeddings) # Len(features) THEN {VecRaised("ValueError")}
       ELSE {LET metadata_features == Standardize(features, rounded)
             IN [status |-> "ok", error |-> "",
                 channels |-> ListOf(LAMBDA i : chs[i] @@ [metadata_features |-> metadata_features[i]],
                                     Len(chs)),
                 embeddings |-> ListOf(LAMBDA i : content_embeddings[i] \o metadata_features[i],
                                       Len(chs)),
                 std |-> ListOf(LAMBDA c : ColumnDivisor(features, c, rounded), MetadataWidth)]
             : rounded \in SUBSET RoundedColumns(features)}

(***************************************************************************)
(* Runs of the vectorizer                                                  *)
(***************************************************************************)
MaxVectorized == 65

Strides == {1, 3}

\* the i-th record of a run: a record of the pool, its title made unique
VectorizeInput(i, stride, offset) ==
    LET rec == ChannelPool[((offset + stride * i) % Len(ChannelPool)) + 1].rec
    IN [rec EXCEPT !.title = @ \o Str(i)]

InitVectorize ==
    /\ \E N \in 0..MaxVectorized : \E stride \in Strides : \E offset \in 0..(Len(ChannelPool) - 1) :
          channels = ListOf(LAMBDA i : VectorizeInput(i, stride, offset), N)
    /\ embeddings = PyNone
    /\ n_clusters = 0 /\ algorithm = <<>> /\ clusters = PyNone
    /\ vec = PyNone
    /\ pc = "vectorize_channels"
    /\ Idle

Vectorize ==
    /\ pc = "vectorize_channels"
    /\ vec' \in vectorize_channels(channels)
    /\ channels' = IF vec'.status = "ok" THEN vec'.channels ELSE channels
    /\ embeddings' = IF vec'.status = "ok" THEN vec'.embeddings ELSE embeddings
    /\ pc' = "vectorized"
    /\ UNCHANGED <<lookups, files, loaded, viz, n_clusters, algorithm, subscription_graph, weight, clusters,
                   enhanced_embeddings, search>>

NextVectorize == Vectorize

SpecVectorize == InitVectorize /\ [][NextVectorize]_vars

\* C2: for every list of N >= 1 channel records with numeric counts,
\* vectorize_channels returns a matrix of exactly N rows, and row i is the
\* embedding of the text of record i followed by the metadata of record i,
\* wherever the batch boundaries fall.
C2_RowsInInputOrder ==
    (pc = "vectorized" /\ Len(channels) >= 1) =>
        /\ vec.status = "ok"
        /\ Len(vec.embeddings) = Len(channels)
        /\ \A i \in 1..Len(channels) :
              /\ vec.embeddings[i][1] =
                    [t |-> "embedding",
                     v |-> channels[i].title \o <<" ">> \o channels[i].description]
              /\ LET features == extract_metadata_features(channels[i])
                 IN \A c \in 1..MetadataWidth : vec.embeddings[i][c + 1].x = features[c]

\* three batches, the last of one row
C2_Witness ==
    /\ pc = "vectorized" /\ vec.status = "ok"
    /\ Len(channels) = 2 * batch_size + 1
    /\ Len(vec.embeddings) = 2 * batch_size + 1
    /\ vec.embeddings[batch_size + 1][1].v = channels[batch_size + 1].title \o <<" ">>
                                                \o channels[batch_size + 1].description
    /\ vec.embeddings[batch_size][1] # vec.embeddings[2 * batch_size][1]

(***************************************************************************)
(* extract_metadata_features on the count values a record can carry        *)
(***************************************************************************)
\* the str the API's statistics block and a JSON file of it give for a count
PyStr(n) == [t |-> "str", v |-> n]

\* extract_metadata_features(channel), lines 52-75: np.log1p and / raise
\* TypeError on None and on str, line 60 first
ExtractOutcome(channel) ==
    IF MetadataRejects(channel)
    THEN [status |-> "error", error |-> "TypeError", features |-> <<>>]
    ELSE [status |-> "ok", error |-> "", features |-> extract_metadata_features(channel)]

\* the values of a count: absent, None, a str, a number
CountValues == {PyNone, PyStr(120), PyInt(120), PyInt(0)}

CountFields == {"subscriber_count", "video_count", "view_count"}

WithCounts(rec, counts) ==
    [f \in (DOMAIN rec \ CountFields) \cup DOMAIN counts |->
        IF f \in DOMAIN counts THEN counts[f] ELSE rec[f]]

InitExtract ==
    /\ \E p \in 1..Len(ChannelPool) : \E present \in SUBSET CountFields :
       \E counts \in [present -> CountValues] :
          channels = <<WithCounts(ChannelPool[p].rec, counts)>>
    /\ embeddings = PyNone
    /\ n_clusters = 0 /\ algorithm = <<>> /\ clusters = PyNone
    /\ vec = PyNone
    /\ pc = "extract_metadata_features"
    /\ Idle

Extract ==
    /\ pc = "extract_metadata_features"
    /\ vec' = ExtractOutcome(channels[1])
    /\ pc' = "extracted"
    /\ UNCHANGED <<lookups, files, loaded, viz, channels, embeddings, n_clusters, algorithm, subscription_graph, weight,
                   clusters, enhanced_embeddings, search>>

NextExtract == Extract

SpecExtract == InitExtract /\ [][NextExtract]_vars

HasNumber(channel, field) == field \in DOMAIN channel /\ IsNumber(channel[field])

\* C11: extract_metadata_features completes for every record, and a count
\* that is absent, None or a str enters as 0, so that a record without a
\* numeric subscriber_count gets log1p(0).
C11_CountsDefaultToZero ==
    pc = "extracted" =>
        /\ vec.status = "ok"
        /\ ~HasNumber(channels[1], "subscriber_count") =>
              vec.features[1] = [t |-> "log1p", v |-> 0]

\* what the code does: only an absent count is replaced by 0; a None or str
\* count raises TypeError
C11_AbsentCountsDefault ==
    pc = "extracted" =>
        /\ vec.status = "ok" <=>
              \A f \in CountFields : f \in DOMAIN channels[1] => IsNumber(channels[1][f])
        /\ (vec.status = "ok" /\ "subscriber_count" \notin DOMAIN channels[1]) =>
              vec.features[1] = [t |-> "log1p", v |-> 0]

\* the str count the API fetch stores ends the extraction with TypeError
C11_Witness ==
    /\ pc = "extracted"
    /\ "subscriber_count" \in DOMAIN channels[1]
    /\ channels[1].subscriber_count = PyStr(120)
    /\ vec.status = "error" /\ vec.error = "TypeError"

\* C12: standardizing the metadata block never divides by zero: the divisor
\* of every column is non-zero, or the constant column is left unscaled.
C12_NoDivisionByZero ==
    (pc = "vectorized" /\ vec.status = "ok") =>
        \A c \in 1..MetadataWidth :
            \/ vec.std[c] # "zero"
            \/ \A i \in 1..Len(vec.embeddings) :
                  vec.embeddings[i][c + 1] = extract_metadata_features(channels[i])[c]

\* what the code does: every column is divided by its std, and a column whose
\* values sum without rounding and are all equal is divided by 0 and is nan
C12_ConstantColumnIsNaN ==
    (pc = "vectorized" /\ vec.status = "ok") =>
        \A c \in 1..MetadataWidth :
            LET column == [i \in 1..Len(channels) |-> extract_metadata_features(channels[i])[c]]
            IN ((\A i \in 1..Len(column) : column[i] = column[1]) /\ column[1].t = "bool") =>
                   /\ vec.std[c] = "zero"
                   /\ \A i \in 1..Len(vec.embeddings) : vec.embeddings[i][c + 1].t = "nan"

\* more than one channel, none with a website in its description: the
\* has_website column is divided by 0
C12_Witness ==
    /\ pc = "vectorized" /\ vec.status = "ok"
    /\ Len(channels) > batch_size
    /\ vec.std[MetadataWidth] = "zero"
    /\ vec.embeddings[1][MetadataWidth + 1].t = "nan"
    /\ vec.std[1] = "std"

(***************************************************************************)
(* data/store.py: save_clusters and load_clusters.  A JSON document is a   *)
(* value [j, v]: an object (a function of its str keys), an array, a       *)
(* string, a number literal, or null.                                      *)
(***************************************************************************)
JsonNull == [j |-> "null", v |-> 0]
JsonString(s) == [j |-> "string", v |-> s]
JsonNumber(x) == [j |-> "number", v |-> x]
JsonArray(items) == [j |-> "array", v |-> items]
JsonObject(members) == [j |-> "object", v |-> members]

\* json.dump of a str or None
DumpStr(s) == IF s = NoneStr THEN JsonNull ELSE JsonString(s)

\* json.load of a string or null
LoadStr(d) == IF d.j = "null" THEN NoneStr ELSE d.v

\* json.dump of None, a str count, an int or a float: the literal of a number
\* is its repr, which json.load reads back as the same number
DumpScalarMutant(x) ==
    IF x.t = "None" THEN JsonNumber(PyInt(0))
    ELSE IF x.t = "str" THEN JsonString(x.v) ELSE JsonNumber(x)

DumpScalar(x) ==
    IF x.t = "None" THEN JsonNull
    ELSE IF x.t = "str" THEN JsonString(x.v) ELSE JsonNumber(x)

LoadScalar(d) ==
    IF d.j = "null" THEN PyNone
    ELSE IF d.j = "string" THEN PyStr(d.v) ELSE d.v

ScalarFields == {"silhouette_score", "subscriber_count", "video_count", "x", "y"}
StrFields == {"algorithm", "channel_id", "title", "description", "engagement_level"}
IntFields == {"n_clusters", "size"}

\* json.dump of the value of a key of a ClusterResult, of a group entry or
\* of a group's metadata
RECURSIVE DumpField(_, _)
DumpField(key, value) ==
    IF key \in ScalarFields THEN DumpScalar(value)
    ELSE IF key \in StrFields THEN DumpStr(value)
    ELSE IF key \in IntFields THEN JsonNumber(PyInt(value))
    ELSE IF key = "avg_engagement" THEN JsonNumber(PyFloat(value))
    ELSE IF key = "labels"
    THEN JsonArray(ListOf(LAMBDA i : JsonNumber(PyInt(value[i])), Len(value)))
    ELSE IF key = "explained_variance"
    THEN JsonArray(ListOf(LAMBDA i : JsonNumber(value[i]), Len(value)))
    ELSE IF key = "reduced_data"
    THEN JsonArray(ListOf(LAMBDA i : JsonArray(<<JsonNumber(value[i][1]), JsonNumber(value[i][2])>>),
                          Len(value)))
    ELSE IF key = "top_categories"
    THEN JsonArray(ListOf(LAMBDA i : JsonString(value[i]), Len(value)))
    ELSE IF key = "cluster_names"
    THEN JsonObject([label \in DOMAIN value |-> JsonString(value[label])])
    ELSE IF key = "cluster_metadata"
    THEN JsonObject([label \in DOMAIN value |->
            JsonObject([f \in DOMAIN value[label] |-> DumpField(f, value[label][f])])])
    ELSE \* key = "channels"
         JsonObject([label \in DOMAIN value |->
            JsonArray(ListOf(LAMBDA i :
                        JsonObject([f \in DOMAIN value[label][i] |->
                                      DumpField(f, value[label][i][f])]),
                      Len(value[label])))])

\* json.load of the document of a key
RECURSIVE LoadField(_, _)
LoadField(key, d) ==
    IF key \in ScalarFields THEN LoadScalar(d)
    ELSE IF key \in StrFields THEN LoadStr(d)
    ELSE IF key \in IntFields \/ key = "avg_engagement" THEN d.v.v
    ELSE IF key = "labels" THEN ListOf(LAMBDA i : d.v[i].v.v, Len(d.v))
    ELSE IF key = "explained_variance" THEN ListOf(LAMBDA i : d.v[i].v, Len(d.v))
    ELSE IF key = "reduced_data"
    THEN ListOf(LAMBDA i : <<d.v[i].v[1].v, d.v[i].v[2].v>>, Len(d.v))
    ELSE IF key = "top_categories" THEN ListOf(LAMBDA i : d.v[i].v, Len(d.v))
    ELSE IF key = "cluster_names" THEN [label \in DOMAIN d.v |-> d.v[label].v]
    ELSE IF key = "cluster_metadata"
    THEN [label \in DOMAIN d.v |->
            [f \in DOMAIN d.v[label].v |-> LoadField(f, d.v[label].v[f])]]
    ELSE [label \in DOMAIN d.v |->
            ListOf(LAMBDA i : [f \in DOMAIN d.v[label].v[i].v |->
                                 LoadField(f, d.v[label].v[i].v[f])],
                   Len(d.v[label].v))]

\* json.dump(clusters, f), lines 118-119
JsonDump(result) == JsonObject([key \in DOMAIN result |-> DumpField(key, result[key])])

\* json.load(f), lines 146-147
JsonLoad(d) == [key \in DOMAIN d.v |-> LoadField(key, d.v[key])]

\* save_clusters(clusters), lines 98-123: clusters.json and a timestamped copy
save_clusters(result, dir) ==
    [name \in DOMAIN dir \cup {"clusters.json", "clusters_timestamp.json"} |->
        IF name \in {"clusters.json", "clusters_timestamp.json"} THEN JsonDump(result)
        ELSE dir[name]]

\* load_clusters(), lines 126-147
load_clusters(dir) ==
    IF "clusters.json" \notin DOMAIN dir THEN PyNone ELSE JsonLoad(dir["clusters.json"])

(***************************************************************************)
(* Runs that save a ClusterResult and load it again                        *)
(***************************************************************************)
SaveClusters ==
    /\ pc \in {"created", "named"}
    /\ clusters.status = "ok"
    /\ files' = save_clusters(clusters.value, files)
    /\ pc' = "saved"
    /\ UNCHANGED <<lookups, channels, embeddings, n_clusters, algorithm, subscription_graph, weight,
                   clusters, enhanced_embeddings, search, vec, loaded, viz>>

LoadClusters ==
    /\ pc = "saved"
    /\ loaded' = load_clusters(files)
    /\ pc' = "loaded"
    /\ UNCHANGED <<lookups, channels, embeddings, n_clusters, algorithm, subscription_graph, weight,
                   clusters, enhanced_embeddings, search, vec, files, viz>>

NextStore == CreateClusters \/ NameClusters \/ SaveClusters \/ LoadClusters

SpecStore == InitNamer /\ [][NextStore]_vars

VizRaised(format, error) ==
    [status |-> "error", error |-> error, format |-> format, names |-> <<>>, file |-> ""]

VizReturned(format, names, file) ==
    [status |-> "ok", error |-> "", format |-> format, names |-> names, file |-> file]

\* all entries of all groups
AllEntries(groups) ==
    LET RECURSIVE Collect(_)
        Collect(keys) == IF keys = {} THEN <<>>
                         ELSE LET key == CHOOSE k \in keys : TRUE
                              IN groups[key] \o Collect(keys \ {key})
    IN Collect(DOMAIN groups)

\* float(x) and int(x) of a count: a number or the str of one converts, None raises
ConvertRaises(x) == x.t = "None"

\* f'Cluster {cluster_label}'
DefaultName(label) == <<"C","l","u","s","t","e","r"," ">> \o label

\* create_plotly_visualization(clusters, output_file), lines 67-194.
\* umap_returns is whether UMAP.fit_transform accepts the matrix of the
\* entries' metadata_features.
create_plotly_visualization(result, umap_returns) ==
    IF "channels" \notin DOMAIN result THEN VizRaised("html", "KeyError")
    ELSE LET entries == AllEntries(result.channels)
         IN IF \E i \in 1..Len(entries) :
                  \/ ConvertRaises(Get(entries[i], "subscriber_count", PyInt(0)))
                  \/ ConvertRaises(Get(entries[i], "video_count", PyInt(0)))
            THEN VizRaised("html", "TypeError")
            ELSE IF ~umap_returns THEN VizRaised("html", "ValueError")
            ELSE IF entries # <<>> /\ "cluster_names" \notin DOMAIN result
            THEN VizRaised("html", "KeyError")
            ELSE VizReturned("html",
                    [label \in DOMAIN result.channels |->
                        IF "cluster_names" \in DOMAIN result
                        THEN Get(result.cluster_names, label, DefaultName(label))
                        ELSE DefaultName(label)],
                    "visualization.html")

\* create_json_visualization(clusters, output_file), lines 197-383
create_json_visualization(result) ==
    IF "channels" \notin DOMAIN result THEN VizRaised("json", "KeyError")
    ELSE LET entries == AllEntries(result.channels)
         IN IF \E i \in 1..Len(entries) :
                  Len(Get(entries[i], "metadata_features", <<0>>)) < 5
            THEN VizRaised("json", "IndexError")
            ELSE VizReturned("json",
                    [label \in DOMAIN result.channels |->
                        Get(Get(result, "cluster_names", NoFiles), label, DefaultName(label))],
                    "output/visualization.json")

\* generate_visualization(clusters, output_format=format), lines 29-64.
\* Whether UMAP.fit_transform accepts the matrix built from the entries'
\* metadata_features (none has any) is left open.
generate_visualization(result, format) ==
    IF format = "html"
    THEN {create_plotly_visualization(result, umap_returns) : umap_returns \in {TRUE, FALSE}}
    ELSE {create_json_visualization(result)}

(***************************************************************************)
(* Runs that render a ClusterResult                                        *)
(***************************************************************************)
Visualize ==
    /\ pc \in {"created", "named"}
    /\ clusters.status = "ok"
    /\ \E format \in {"html", "json"} : viz' \in generate_visualization(clusters.value, format)
    /\ files' = IF viz'.status = "ok"
                THEN [name \in DOMAIN files \cup {viz'.file} |->
                        IF name = viz'.file THEN viz'.names ELSE files[name]]
                ELSE files
    /\ pc' = "visualized"
    /\ UNCHANGED <<lookups, channels, embeddings, n_clusters, algorithm, subscription_graph, weight,
                   clusters, enhanced_embeddings, search, vec, loaded>>

NextVisualize == CreateClusters \/ NameClusters \/ Visualize

SpecVisualize == InitNamer /\ [][NextVisualize]_vars

\* C14: for a ClusterResult without cluster_names and cluster_metadata,
\* generate_visualization completes in both formats and labels each group
\* "Cluster <label>".
C14_RendersWithoutNames ==
    (pc = "visualized" /\ "cluster_names" \notin DOMAIN clusters.value
                       /\ "cluster_metadata" \notin DOMAIN clusters.value) =>
        /\ viz.status = "ok"
        /\ \A label \in DOMAIN clusters.value.channels :
              viz.names[label] = <<"C","l","u","s","t","e","r"," ">> \o label

\* what the code does with the result of create_clusters alone: neither
\* format completes
C14_UnnamedNeverRenders ==
    (pc = "visualized" /\ "cluster_names" \notin DOMAIN clusters.value) =>
        /\ viz.status = "error"
        /\ viz.format = "json" => viz.error = "IndexError"
        /\ viz.format = "html" => viz.error \in {"TypeError", "ValueError", "KeyError"}

\* an unnamed result with two groups, rendered as json: IndexError
C14_Witness ==
    /\ pc = "visualized"
    /\ "cluster_names" \notin DOMAIN clusters.value
    /\ Cardinality(DOMAIN clusters.value.channels) = 2
    /\ viz.format = "json" /\ viz.status = "error" /\ viz.error = "IndexError"

(***************************************************************************)
(* interface/streamlit_app.py: create_channel_clusters                     *)
(***************************************************************************)
\* check_array of the fit: a matrix holding nan is rejected
HasNaN(X) == \E i \in 1..Len(X) : \E c \in 1..Len(X[i]) : X[i][c].t = "nan"

\* create_clusters on the matrix vectorize_channels returned
FitFeatures(X, chs, k) ==
    IF X # <<>> /\ HasNaN(X) THEN {Raised("ValueError", <<>>, FALSE)}
    ELSE create_clusters(X, chs, k, <<"k","m","e","a","n","s">>)

\* save_embeddings(embeddings), vectorize.py lines 141-157
save_embeddings(X, dir) ==
    [name \in DOMAIN dir \cup {"embeddings.npy"} |->
        IF name = "embeddings.npy" THEN X ELSE dir[name]]

\* a value of st.session_state.subscriptions
PyList(v) == [t |-> "list", v |-> v]

\* create_channel_clusters(), lines 90-113: the set of its outcomes, for the
\* session's subscriptions and n_clusters and the data directory
create_channel_clusters(subscriptions, k, dir) ==
    IF subscriptions.t = "None"
    THEN {[status |-> "warning", vec |-> PyNone, clusters |-> PyNone, files |-> dir]}
    ELSE UNION {
        IF v.status # "ok"
        THEN {[status |-> "error", vec |-> v, clusters |-> PyNone, files |-> dir]}
        ELSE {IF r.status # "ok"
              THEN [status |-> "error", vec |-> v, clusters |-> r,
                    files |-> save_embeddings(v.embeddings, dir)]
              ELSE [status |-> "success", vec |-> v, clusters |-> r,
                    files |-> save_clusters(r.value, save_embeddings(v.embeddings, dir))]
              : r \in FitFeatures(v.embeddings, v.channels, k)}
        : v \in vectorize_channels(subscriptions.v)}

(***************************************************************************)
(* Runs of the Create Clusters button                                      *)
(***************************************************************************)
\* the records a session holds: two that differ in every metadata column and
\* one without identifier and counts
SessionPool ==
    <<ChannelPool[1].rec,
      [ChannelPool[2].rec EXCEPT !.description = <<"w","w","w"," ","t","w","i","t","t","e","r">>],
      ChannelPool[4].rec>>

MaxSession == 3

\* lines 306-312: the slider gives 2..30, 10 by default
SliderValues == {2, 3, 10}

InitStreamlit ==
    /\ \E N \in 0..MaxSession : \E pick \in [1..N -> 1..Len(SessionPool)] :
          channels = ListOf(LAMBDA i : SessionPool[pick[i]], N)
    /\ n_clusters \in SliderValues
    /\ pc \in {"session_empty", "session_loaded"}
    /\ pc = "session_empty" => channels = <<>>
    /\ embeddings = PyNone /\ clusters = PyNone /\ algorithm = <<"k","m","e","a","n","s">>
    /\ Idle

CreateChannelClusters ==
    /\ pc \in {"session_empty", "session_loaded"}
    /\ \E outcome \in create_channel_clusters(
                         IF pc = "session_empty" THEN PyNone ELSE PyList(channels),
                         n_clusters, files) :
          /\ vec' = outcome.vec
          /\ clusters' = outcome.clusters
          /\ files' = outcome.files
          /\ pc' = outcome.status
    /\ embeddings' = IF pc' # "warning" /\ vec'.status = "ok" THEN vec'.embeddings ELSE embeddings
    /\ channels' = IF pc' # "warning" /\ vec'.status = "ok" THEN vec'.channels ELSE channels
    /\ UNCHANGED <<lookups, loaded, viz, n_clusters, algorithm, subscription_graph, weight,
                   enhanced_embeddings, search>>

NextStreamlit == CreateChannelClusters

SpecStreamlit == InitStreamlit /\ [][NextStreamlit]_vars

\* the input of a finished run is invalid: the cluster count is out of range
\* for the list, the list is empty, or a record has no identifier
InvalidInput ==
    \/ n_clusters > Len(channels)
    \/ channels = <<>>
    \/ \E i \in 1..Len(channels) : "channel_id" \notin DOMAIN channels[i]

\* C15: every run on invalid input (cluster count out of range for the list,
\* empty list, a record without identifier) fails, and when it fails no
\* output file of the run has been written.
C15_InvalidInputWritesNothing ==
    (pc \in {"error", "success"} /\ InvalidInput) =>
        pc = "error" /\ files = NoFiles

\* what the code does keep: a run that fails in vectorize_channels has
\* written nothing, and a run that fails later has written the embeddings
C15_FailureLeavesEmbeddings ==
    pc = "error" =>
        IF vec.status = "ok" THEN DOMAIN files = {"embeddings.npy"} ELSE files = NoFiles

\* three channels and 10 clusters: the fit raised after the embeddings were saved
C15_Witness ==
    /\ pc = "error"
    /\ Len(channels) = 3 /\ n_clusters = 10
    /\ vec.status = "ok" /\ clusters.status = "error"
    /\ "embeddings.npy" \in DOMAIN files
    /\ "clusters.json" \notin DOMAIN files

(***************************************************************************)
(* cluster_subscriptions.py: main, over data/store.py load_subscriptions   *)
(***************************************************************************)
\* the empty string of a csv cell or of an answer, and a word; they denote no number
EmptyStr == [t |-> "empty", v |-> 0]

Word == [t |-> "text", v |-> 0]

\* csv.DictReader: every cell of a row is a str
CsvCell(rec, f) == IF f \in DOMAIN rec THEN PyStr(rec[f].v) ELSE EmptyStr

\* a row of subscriptions.csv for a record, with or without the count columns
CsvRow(rec, counted) ==
    IF counted
    THEN WithCounts(rec, [f \in CountFields |-> CsvCell(rec, f)])
    ELSE WithCounts(rec, [f \in {} |-> EmptyStr])

\* load_subscriptions(), store.py lines 61-95, format 'csv'
load_subscriptions(dir) ==
    IF "subscriptions.csv" \notin DOMAIN dir THEN <<>> ELSE dir["subscriptions.csv"]

\* line 29: int(input(...) or "10")
ParseClusters(answer) ==
    IF answer.t = "text" THEN [status |-> "error", value |-> 0]
    ELSE IF answer.t = "empty" THEN [status |-> "ok", value |-> 10]
    ELSE [status |-> "ok", value |-> answer.v]

MainEnded(status, v, r, z, dir, subscriptions) ==
    [status |-> status, vec |-> v, clusters |-> r, viz |-> z, files |-> dir,
     subscriptions |-> subscriptions]

\* the file generate_visualization wrote
WithVisualization(dir, z) ==
    [name \in DOMAIN dir \cup {z.file} |-> IF name = z.file THEN z.names ELSE dir[name]]

\* main(), lines 16-45: the set of its outcomes for the data directory and
\* the answer typed at the prompt
cluster_subscriptions_main(dir, answer) ==
    LET subscriptions == load_subscriptions(dir)
        parsed == ParseClusters(answer)
    IN IF parsed.status # "ok"
       THEN {MainEnded("ValueError", PyNone, PyNone, PyNone, dir, subscriptions)}
       ELSE UNION {
           IF v.status # "ok"
           THEN {MainEnded(v.error, v, PyNone, PyNone, dir, subscriptions)}
           ELSE UNION {
               IF r.status # "ok"
               THEN {MainEnded(r.error, v, r, PyNone, dir, v.channels)}
               ELSE {IF z.status # "ok"
                     THEN MainEnded(z.error, v, r, z, dir, v.channels)
                     ELSE MainEnded("", v, r, z, WithVisualization(dir, z), v.channels)
                     : z \in generate_visualization(r.value, "html")}
               : r \in FitFeatures(v.embeddings, v.channels, parsed.value)}
           : v \in vectorize_channels(subscriptions)}

(***************************************************************************)
(* Runs of the command-line clustering                                     *)
(***************************************************************************)
MaxRows == 3

\* what the user types at the prompt: nothing, a word, or a number
Answers == {EmptyStr, Word,
            PyStr(-1), PyStr(0), PyStr(1), PyStr(2), PyStr(3)}

\* n_clusters holds the answer typed at the prompt; the data directory has
\* no subscriptions.csv, or one of up to MaxRows rows
InitMain ==
    /\ \/ files = NoFiles
       \/ \E N \in 0..MaxRows : \E pick \in [1..N -> 1..Len(SessionPool)] :
          \E counted \in BOOLEAN :
             files = [name \in {"subscriptions.csv"} |->
                         ListOf(LAMBDA i : CsvRow(SessionPool[pick[i]], counted), N)]
    /\ n_clusters \in Answers
    /\ channels = <<>> /\ embeddings = PyNone /\ clusters = PyNone
    /\ algorithm = <<"k","m","e","a","n","s">>
    /\ loaded = PyNone /\ viz = PyNone /\ lookups = <<>>
    /\ subscription_graph = <<>> /\ weight = 0 /\ enhanced_embeddings = PyNone
    /\ search = PyNone /\ vec = PyNone
    /\ pc = "main"

Main ==
    /\ pc = "main"
    /\ \E outcome \in cluster_subscriptions_main(files, n_clusters) :
          /\ channels' = outcome.subscriptions
          /\ vec' = outcome.vec
          /\ clusters' = outcome.clusters
          /\ viz' = outcome.viz
          /\ files' = outcome.files
          /\ pc' = IF outcome.status = "" THEN "exited" ELSE "raised"
    /\ UNCHANGED <<lookups, loaded, embeddings, n_clusters, algorithm, subscription_graph, weight,
                   enhanced_embeddings, search>>

NextMain == Main

SpecMain == InitMain /\ [][NextMain]_vars

\* the answer is an integer >= 2
ValidClusterCount(answer) ==
    ParseClusters(answer).status = "ok" /\ ParseClusters(answer).value >= 2

\* C16: a cluster count that is not an integer >= 2 is rejected before
\* vectorize_channels starts; the embedding step never runs under it.
C16_InvalidCountStopsBeforeVectorize ==
    (pc \in {"exited", "raised"} /\ ~ValidClusterCount(n_clusters)) => vec = PyNone

\* what the code does keep: an answer that is no integer literal stops the
\* run before vectorize_channels, every integer lets it start
C16_OnlyWordsRejected ==
    pc \in {"exited", "raised"} => (vec = PyNone <=> n_clusters.t = "text")

\* the answer 1 with two rows: vectorize_channels ran to its end
C16_Witness ==
    /\ pc = "raised"
    /\ n_clusters = PyStr(1)
    /\ Len(channels) = 2
    /\ vec # PyNone /\ vec.status = "ok"

\* C17: when subscriptions.csv is missing the run fails at the load step; no
\* later stage (vectorize, cluster, visualize) runs on a substituted value.
C17_MissingFileStopsAtLoad ==
    (pc \in {"exited", "raised"} /\ "subscriptions.csv" \notin DOMAIN files) =>
        pc = "raised" /\ vec = PyNone /\ clusters = PyNone /\ viz = PyNone

\* what the code does keep: with the file missing the run ends with an
\* error, raised by the prompt or by vectorize_channels on the empty list
C17_MissingFileFailsLater ==
    (pc \in {"exited", "raised"} /\ "subscriptions.csv" \notin DOMAIN files) =>
        /\ pc = "raised" /\ channels = <<>> /\ clusters = PyNone /\ viz = PyNone
        /\ n_clusters.t # "text" => (vec # PyNone /\ vec.error = "ValueError")

\* no file, the default answer: vectorize_channels ran on the empty list
C17_Witness ==
    /\ pc = "raised"
    /\ files = NoFiles
    /\ n_clusters = EmptyStr
    /\ vec # PyNone /\ vec.status = "error"

(***************************************************************************)
(* enhanced_clustering.py: build_subscription_graph                        *)
(***************************************************************************)
\* what the client does with one subscriptions().list(...).execute()
LookupRaises == [raises |-> TRUE, response |-> [key \in {} |-> <<>>]]

LookupReturns(response) == [raises |-> FALSE, response |-> response]

\* line 68: item['snippet']['resourceId']['channelId'] raises KeyError on an
\* item without it
ItemRaises(item) == "channelId" \notin DOMAIN item

\* the lookup ends in the except clause
LookupFails(answer) ==
    \/ answer.raises
    \/ LET items == Get(answer.response, "items", <<>>)
       IN \E k \in 1..Len(items) : ItemRaises(items[k])

\* the ids collected before the first item that raises
RECURSIVE CollectedIds(_)
CollectedIds(items) ==
    IF items = <<>> \/ ItemRaises(Head(items)) THEN <<>>
    ELSE <<Head(items).channelId>> \o CollectedIds(Tail(items))

fetch_channel_subscriptionsMutant(answer) ==
    CollectedIds(Get(answer.response, "items", <<>>))

\* fetch_channel_subscriptions, lines 58-74: the bare except returns []
fetch_channel_subscriptions(answer) ==
    IF LookupFails(answer) THEN <<>>
    ELSE CollectedIds(Get(answer.response, "items", <<>>))

\* subscription_graph[channel_id] = subscribed_to on the ordered dict
GraphSet(graph, channel_id, subscribed_to) ==
    IF \E k \in 1..Len(graph) : graph[k][1] = channel_id
    THEN [k \in 1..Len(graph) |->
            IF graph[k][1] = channel_id THEN <<channel_id, subscribed_to>> ELSE graph[k]]
    ELSE Append(graph, <<channel_id, subscribed_to>>)

\* lines 86-87: channel.get('channel_id') is None or empty
HasNoId(channel) == Get(channel, "channel_id", <<>>) = <<>>

\* lines 84-94: the loop from channel i on; answers[i] is what the client
\* does when asked for channel i
RECURSIVE BuildLoop(_, _, _, _, _)
BuildLoop(i, chs, answers, graph, log) ==
    IF i > Len(chs) THEN [graph |-> graph, lookups |-> log]
    ELSE IF HasNoId(chs[i]) THEN BuildLoop(i + 1, chs, answers, graph, log)
    ELSE BuildLoop(i + 1, chs, answers,
                   GraphSet(graph, chs[i].channel_id, fetch_channel_subscriptions(answers[i])),
                   Append(log, [channel_id |-> chs[i].channel_id, answer |-> answers[i]]))

\* build_subscription_graph(youtube_client, channels), lines 76-96
build_subscription_graph(chs, answers) == BuildLoop(1, chs, answers, <<>>, <<>>)

(***************************************************************************)
(* Runs of build_subscription_graph                                        *)
(***************************************************************************)
MaxLookups == 3

\* two records with identifier, one without, one with an empty one
LookupPool ==
    <<ChannelPool[1].rec, ChannelPool[2].rec, ChannelPool[4].rec,
      [ChannelPool[3].rec EXCEPT !.channel_id = <<>>]>>

LookupAnswers ==
    {LookupRaises,
     LookupReturns([key \in {} |-> <<>>]),
     LookupReturns([items |-> <<>>]),
     LookupReturns([items |-> <<[channelId |-> <<"b">>], [channelId |-> <<"z">>]>>]),
     LookupReturns([items |-> <<[channelId |-> <<"a">>], [kind |-> <<"x">>]>>])}

InitLookups ==
    /\ \E N \in 0..MaxLookups : \E pick \in [1..N -> 1..Len(LookupPool)] :
          channels = ListOf(LAMBDA i : LookupPool[pick[i]], N)
    /\ embeddings = PyNone /\ n_clusters = 0 /\ algorithm = <<>> /\ clusters = PyNone
    /\ pc = "build_subscription_graph"
    /\ Idle

BuildSubscriptionGraph ==
    /\ pc = "build_subscription_graph"
    /\ \E answers \in [1..Len(channels) -> LookupAnswers] :
          LET built == build_subscription_graph(channels, answers)
          IN /\ subscription_graph' = built.graph
             /\ lookups' = built.lookups
    /\ pc' = "built"
    /\ UNCHANGED <<files, loaded, viz, channels, embeddings, n_clusters, algorithm, weight,
                   clusters, enhanced_embeddings, search, vec>>

NextLookups == BuildSubscriptionGraph

SpecLookups == InitLookups /\ [][NextLookups]_vars

\* the identifiers of the channels that have one, in list order
RECURSIVE IdsFrom(_, _)
IdsFrom(i, chs) ==
    IF i > Len(chs) THEN <<>>
    ELSE IF HasNoId(chs[i]) THEN IdsFrom(i + 1, chs)
    ELSE <<chs[i].channel_id>> \o IdsFrom(i + 1, chs)

\* the last lookup made for an identifier
LastLookup(id) ==
    lookups[CHOOSE k \in 1..Len(lookups) :
                /\ lookups[k].channel_id = id
                /\ \A j \in (k + 1)..Len(lookups) : lookups[j].channel_id # id]

\* C18: whichever lookups fail, build_subscription_graph returns; every
\* channel with an identifier has a graph entry; the entry of a failed lookup
\* is the empty list, as for a lookup that found no subscriptions; and every
\* channel with an identifier was looked up, those after a failure included.
C18_FailedLookupsAreEmpty ==
    pc = "built" =>
        /\ ListOf(LAMBDA k : lookups[k].channel_id, Len(lookups)) = IdsFrom(1, channels)
        /\ {subscription_graph[k][1] : k \in 1..Len(subscription_graph)}
               = SetOfSeq(IdsFrom(1, channels))
        /\ \A k \in 1..Len(subscription_graph) :
              LET answer == LastLookup(subscription_graph[k][1]).answer
              IN /\ LookupFails(answer) => subscription_graph[k][2] = <<>>
                 /\ answer = LookupReturns([items |-> <<>>]) => subscription_graph[k][2] = <<>>

\* three channels with identifiers: the first lookup raised, the second hit
\* a malformed item, the third returned two subscriptions
C18_Witness ==
    /\ pc = "built"
    /\ Len(channels) = 3 /\ Len(lookups) = 3
    /\ lookups[1].answer = LookupRaises
    /\ LookupFails(lookups[2].answer) /\ ~lookups[2].answer.raises
    /\ lookups[3].channel_id # lookups[1].channel_id
    /\ LastLookup(lookups[3].channel_id).answer = lookups[3].answer
    /\ Len(subscription_graph[Len(subscription_graph)][2]) = 2

(***************************************************************************)
(* Runs of create_clusters on separated blobs of duplicated vectors        *)
(***************************************************************************)
MaxBlobs == 5
MaxCopies == 6

\* the distance between two neighbouring blobs, far above eps
Gaps == {10, 100}

\* b blobs of m copies of one vector each, blob after blob
Blobs(b, m, gap) == ListOf(LAMBDA i : <<gap * ((i - 1) \div m), 0>>, b * m)

DensityNames == {<<"d","b","s","c","a","n">>, <<"D","B","S","C","A","N">>}

\* create_clusters(embeddings, algorithm='dbscan'): channels and n_clusters
\* keep their defaults
InitBlobs ==
    /\ \E b \in 1..MaxBlobs : \E m \in 1..MaxCopies : \E gap \in Gaps :
          embeddings = Blobs(b, m, gap)
    /\ channels = <<>>
    /\ n_clusters = 10
    /\ algorithm \in DensityNames
    /\ clusters = PyNone
    /\ pc = "create_clusters"
    /\ Idle

NextBlobs == CreateClusters

SpecBlobs == InitBlobs /\ [][NextBlobs]_vars

\* the matrix is 5 blobs of 2 copies
IsFivePairs == \E gap \in Gaps : embeddings = Blobs(5, 2, gap)

\* C19: density-based create_clusters on 10 points forming 5 widely
\* separated clusters of 2 identical vectors returns n_clusters = 5, gives no
\* point the noise label and returns a quality score above 0.
C19_FivePairsAreFiveClusters ==
    (pc = "created" /\ IsFivePairs) =>
        /\ clusters.status = "ok"
        /\ clusters.value.n_clusters = 5
        /\ \A i \in 1..Len(clusters.value.labels) : clusters.value.labels[i] # -1
        /\ clusters.value.silhouette_score # PyNone
        /\ clusters.value.silhouette_score.v > 0

\* what the code does: a blob of fewer than min_samples = 5 copies has no
\* core point and is noise, so such a matrix gives 0 clusters and no score;
\* blobs of 5 copies or more are found, one cluster each
C19_BlobsBelowMinSamplesAreNoise ==
    pc = "created" =>
        \A b \in 1..MaxBlobs : \A m \in 1..MaxCopies : \A gap \in Gaps :
            embeddings = Blobs(b, m, gap) =>
                /\ clusters.status = "ok"
                /\ clusters.value.n_clusters = IF m < MinSamples THEN 0 ELSE b
                /\ \A i \in 1..(b * m) :
                      clusters.value.labels[i] = IF m < MinSamples THEN -1 ELSE (i - 1) \div m
                /\ (m < MinSamples \/ b = 1) => clusters.value.silhouette_score = PyNone

\* the 10 points of the scenario: every label is noise
C19_Witness ==
    /\ pc = "created"
    /\ IsFivePairs
    /\ clusters.status = "ok"
    /\ clusters.value.n_clusters = 0
    /\ clusters.value.labels = [i \in 1..10 |-> -1]
    /\ clusters.value.silhouette_score = PyNone

(***************************************************************************)
(* Claims about the engagement name_clusters records                       *)
(***************************************************************************)
\* the engagement rates of the input channels labelled key
RECURSIVE MemberRates(_, _, _)
MemberRates(i, labels, key) ==
    IF i > Len(channels) THEN <<>>
    ELSE (IF Str(labels[i]) = key
          THEN <<Get(channels[i], "engagement_rate", 0)>>
          ELSE <<>>) \o MemberRates(i + 1, labels, key)

\* the cut points over the engagement rates of all channels of the run
RunThresholds == EngagementThresholds([run \in {"run"} |-> channels])

\* C20: after create_clusters and name_clusters the avg_engagement of each
\* group is the mean of the engagement_rate of the input channels of the
\* group, and its level is decided against the percentiles of the engagement
\* rates of all channels of the run.
C20_EngagementFromInput ==
    pc = "named" =>
        \A key \in DOMAIN clusters.value.cluster_metadata :
            LET rates == MemberRates(1, clusters.labels, key)
                metadata == clusters.value.cluster_metadata[key]
            IN /\ metadata.avg_engagement = Rat(SumSeq(rates), Len(rates))
               /\ metadata.engagement_level
                     = EngagementLevel(SumSeq(rates), Len(rates), RunThresholds)

\* what the code does: the entries create_clusters builds carry no
\* engagement_rate, so every group has avg_engagement 0 and level Low,
\* decided against the default cut points
C20_EngagementIsZero ==
    pc = "named" =>
        /\ EngagementThresholds(clusters.value.channels) = [high |-> 40, medium |-> 20, low |-> 4]
        /\ \A key \in DOMAIN clusters.value.cluster_metadata :
              /\ clusters.value.cluster_metadata[key].avg_engagement = Rat(0, 1)
              /\ clusters.value.cluster_metadata[key].engagement_level = <<"L","o","w">>

\* a named group whose input channels have engagement rates above 0
C20_Witness ==
    /\ pc = "named"
    /\ \E key \in DOMAIN clusters.value.cluster_metadata :
          /\ SumSeq(MemberRates(1, clusters.labels, key)) > 0
          /\ Len(MemberRates(1, clusters.labels, key)) = 2
          /\ clusters.value.cluster_metadata[key].avg_engagement = Rat(0, 1)
          /\ clusters.value.cluster_metadata[key].size = 2

(***************************************************************************)
(* Runs of name_clusters on groups whose entries carry engagement rates.   *)
(* The entries of a run are listed in pool order.                          *)
(***************************************************************************)
MaxGrouped == 3

\* entries with and without keywords of the taxonomy and engagement rates
GroupPool ==
    <<[channel_id |-> <<"a">>, title |-> <<"X","b","o","x">>, description |-> <<"g","a","m","i","n","g"," ","f","u","n">>,
       engagement_rate |-> 3],
      [channel_id |-> <<"b">>, title |-> <<"M","u","s","i","c"," ","b","a","n","d">>, description |-> <<"s","o","n","g"," ","t","e","c","h">>,
       engagement_rate |-> 1],
      [channel_id |-> <<"c">>, title |-> <<"T","e","c","h"," ","c","o","d","e">>, description |-> <<>>],
      [channel_id |-> <<"d">>, title |-> <<"Q","z">>, description |-> <<"h","m">>,
       engagement_rate |-> 0]>>

\* the entries labelled key, in list order
RECURSIVE MembersOf(_, _, _, _)
MembersOf(i, chs, labels, key) ==
    IF i > Len(chs) THEN <<>>
    ELSE (IF Str(labels[i]) = key THEN <<chs[i]>> ELSE <<>>)
         \o MembersOf(i + 1, chs, labels, key)

\* a clusters dict whose groups hold the channel records themselves
GroupedResult(chs, labels) ==
    [algorithm |-> <<"k","m","e","a","n","s">>,
     n_clusters |-> 2,
     silhouette_score |-> PyNone,
     labels |-> labels,
     channels |-> [key \in {Str(labels[i]) : i \in 1..Len(labels)} |->
                      MembersOf(1, chs, labels, key)]]

InitGroups ==
    /\ \E N \in 1..MaxGrouped : \E pick \in [1..N -> 1..Len(GroupPool)] :
       \E labels \in [1..N -> {0, 1}] :
          /\ \A i, j \in 1..N : i < j => pick[i] <= pick[j]
          /\ channels = ListOf(LAMBDA i : GroupPool[pick[i]], N)
          /\ clusters = Returned(GroupedResult(ListOf(LAMBDA i : GroupPool[pick[i]], N),
                                               ListOf(LAMBDA i : labels[i], N)), FALSE)
    /\ embeddings = PyNone /\ n_clusters = 2 /\ algorithm = <<"k","m","e","a","n","s">>
    /\ pc = "created"
    /\ Idle

NextGroups == NameClusters

SpecGroups == InitGroups /\ [][NextGroups]_vars

EngagementLevels == {<<"L","o","w">>, <<"M","e","d","i","u","m">>, <<"H","i","g","h">>}

LevelSuffix(level) == <<" ","(">> \o level \o <<" ","E","n","g","a","g","e","m","e","n","t",")">>

EndsWith(text, suffix) ==
    Len(text) >= Len(suffix)
    /\ SubSeq(text, Len(text) - Len(suffix) + 1, Len(text)) = suffix

\* the metadata of group key records a level, the number of members and
\* three categories of the taxonomy
MetadataRecorded(key) ==
    LET metadata == clusters.value.cluster_metadata[key]
    IN /\ metadata.engagement_level \in EngagementLevels
       /\ metadata.size = Len(MemberTexts(1, clusters.labels, key))
       /\ Len(metadata.top_categories) = 3
       /\ \A r \in 1..3 : \E c \in 1..Len(TOPIC_MAP) :
             metadata.top_categories[r] = TOPIC_MAP[c].category
       /\ \A r, q \in 1..3 : metadata.top_categories[r] = metadata.top_categories[q] => r = q

\* C21 as stated: for every group the level is appended to the name and
\* recorded in the metadata, the two agree, and the metadata records the
\* size and the top-3 categories.
C21_Original ==
    pc = "named" =>
        \A key \in DOMAIN clusters.value.channels :
            /\ MetadataRecorded(key)
            /\ EndsWith(clusters.value.cluster_names[key],
                        LevelSuffix(clusters.value.cluster_metadata[key].engagement_level))

\* C21: for every group the metadata records the level, the size and the
\* top-3 categories; the level is appended to the name, agreeing with the
\* metadata, exactly for the groups that got a category, and a group without
\* one is named "Cluster <label>" with no level.
C21_LevelInNameOfCategorised ==
    pc = "named" =>
        \A key \in DOMAIN clusters.value.channels :
            /\ MetadataRecorded(key)
            /\ IF MatchesNoKeyword(GroupText(key))
               THEN clusters.value.cluster_names[key] = FallbackName(key)
               ELSE /\ EndsWith(clusters.value.cluster_names[key],
                          LevelSuffix(clusters.value.cluster_metadata[key].engagement_level))
                    /\ clusters.value.cluster_names[key][1] =
                          clusters.value.cluster_metadata[key].top_categories[1][1]

\* a High group and a Medium group with categories, both named with their level
C21_Witness ==
    /\ pc = "named"
    /\ \E key \in DOMAIN clusters.value.channels :
          /\ clusters.value.cluster_metadata[key].engagement_level = <<"H","i","g","h">>
          /\ EndsWith(clusters.value.cluster_names[key], <<" ","(","H","i","g","h"," ","E","n","g","a","g","e","m","e","n","t",")">>)
    /\ \E key \in DOMAIN clusters.value.channels :
          /\ clusters.value.cluster_metadata[key].engagement_level = <<"M","e","d","i","u","m">>
          /\ EndsWith(clusters.value.cluster_names[key], <<" ","(","M","e","d","i","u","m"," ","E","n","g","a","g","e","m","e","n","t",")">>)

\* the ranked categories of group key
RankedCategories(key) == TopCategories(CategoryScores(clusters.value.channels[key]))

\* the name of group key without its engagement level
NameWithoutLevel(key) ==
    LET name == clusters.value.cluster_names[key]
        suffix == LevelSuffix(clusters.value.cluster_metadata[key].engagement_level)
    IN IF EndsWith(name, suffix) THEN SubSeq(name, 1, Len(name) - Len(suffix)) ELSE name

\* C24: for a group whose top category score is positive, a second score of
\* at least 70% of the top gives the name "Primary & Secondary", and a second
\* score below 60% of the top gives the primary category alone.
C24_SecondaryCategory ==
    pc = "named" =>
        \A key \in DOMAIN clusters.value.channels :
            \A ranked \in {RankedCategories(key)} :
               ranked[1].score > 0 =>
                  /\ 10 * ranked[2].score >= 7 * ranked[1].score =>
                        NameWithoutLevel(key)
                            = ranked[1].category \o <<" ","&"," ">> \o ranked[2].category
                  /\ 10 * ranked[2].score < 6 * ranked[1].score =>
                        NameWithoutLevel(key) = ranked[1].category

\* a group whose second score is 3 of 4 named with both categories, or a
\* group with equal scores beside a group whose second score is 1 of 3
C24_Witness ==
    /\ pc = "named"
    /\ \E key \in DOMAIN clusters.value.channels :
          /\ RankedCategories(key)[1].score = 4 /\ RankedCategories(key)[2].score = 3
          /\ NameWithoutLevel(key) = <<"G","a","m","i","n","g"," ","&"," ","M","u","s","i","c">>

(***************************************************************************)
(* clustering/vectorize.py: prepare_channel_text                           *)
(***************************************************************************)
\* topic_url.split('/')[-1]: what follows the last '/'
RECURSIVE LastSegment(_)
LastSegment(url) ==
    IF url = <<>> \/ url[Len(url)] = "/" THEN <<>>
    ELSE Append(LastSegment(SubSeq(url, 1, Len(url) - 1)), url[Len(url)])

\* .replace('_', ' ')
ReplaceUnderscores(s) == [k \in 1..Len(s) |-> IF s[k] = "_" THEN " " ELSE s[k]]

\* ', '.join(topics)
RECURSIVE JoinComma(_)
JoinComma(parts) ==
    IF parts = <<>> THEN <<>>
    ELSE IF Len(parts) = 1 THEN parts[1]
    ELSE parts[1] \o <<","," ">> \o JoinComma(Tail(parts))

\* prepare_channel_text(channel), lines 24-49
prepare_channel_text(channel) ==
    LET text == Format(Get(channel, "title", <<>>)) \o <<" ","-"," ">>
                \o Format(Get(channel, "description", <<>>))
        urls == Get(channel, "topics", <<>>)
        topics == [k \in 1..Len(urls) |-> ReplaceUnderscores(LastSegment(urls[k]))]
    IN IF urls # <<>> THEN text \o <<" ","-"," ","T","o","p","i","c","s",":"," ">> \o JoinComma(topics) ELSE text

(***************************************************************************)
(* Runs of the vectorizer on records with topic tags                       *)
(***************************************************************************)
MaxTagged == 2

TopicLists ==
    {<<>>, <<<<"w","/","V","i","d","e","o","_","g","a","m","e">>>>, <<<<"w","/","V","i","d","e","o","_","g","a","m","e">>, <<"w","/","M","u","s","i","c">>>>}

\* a record of the pool, with a list of topic urls or without the field
Tagged(rec, tagged, topics) == IF tagged THEN rec @@ [topics |-> topics] ELSE rec

InitTagged ==
    /\ \E N \in 1..MaxTagged : \E pick \in [1..N -> {1, 2}] :
       \E tagged \in [1..N -> BOOLEAN] : \E topics \in [1..N -> TopicLists] :
          /\ \A i \in 1..N : ~tagged[i] => topics[i] = <<>>
          /\ channels = ListOf(LAMBDA i : Tagged(ChannelPool[pick[i]].rec, tagged[i], topics[i]), N)
    /\ embeddings = PyNone
    /\ n_clusters = 0 /\ algorithm = <<>> /\ clusters = PyNone
    /\ pc = "vectorize_channels"
    /\ Idle

NextTagged == Vectorize

SpecTagged == InitTagged /\ [][NextTagged]_vars

\* the text vectorize_channels gave the embedding model for channel i
EmbeddedText(i) == vec.embeddings[i][1].v

\* C22: the text vectorize_channels passes to the embedding model for a
\* channel is its title and description with the name of every topic tag
\* appended when it has tags; it is what prepare_channel_text builds from
\* the record.
C22_TextIsPreparedText ==
    (pc = "vectorized" /\ vec.status = "ok") =>
        \A i \in 1..Len(channels) : EmbeddedText(i) = prepare_channel_text(channels[i])

\* what the code does: the text is "title description", whatever the tags
C22_TextIgnoresTopics ==
    (pc = "vectorized" /\ vec.status = "ok") =>
        \A i \in 1..Len(channels) :
            /\ EmbeddedText(i) = channels[i].title \o <<" ">> \o channels[i].description
            /\ EmbeddedText(i) # prepare_channel_text(channels[i])

\* a record with two topic tags whose embedded text names neither
C22_Witness ==
    /\ pc = "vectorized" /\ vec.status = "ok"
    /\ "topics" \in DOMAIN channels[1]
    /\ Len(channels[1].topics) = 2
    /\ prepare_channel_text(channels[1]) = <<"X","b","o","x"," ","-"," ","g","a","m","i","n","g"," ","f","u","n"," ","-"," ","T","o","p","i","c","s",":"," ","V","i","d","e","o"," ","g","a","m","e",","," ","M","u","s","i","c">>
    /\ EmbeddedText(1) = <<"X","b","o","x"," ","g","a","m","i","n","g"," ","f","u","n">>

(***************************************************************************)
(* Runs of the stages downstream of the vectorizer: the enhancer, the      *)
(* weight search, create_clusters and name_clusters                        *)
(***************************************************************************)
MaxDownstream == 2

InitDownstream ==
    \/ InitEnhance /\ Len(channels) <= MaxDownstream
    \/ InitNamer /\ Len(channels) <= MaxDownstream
    \/ InitSearch /\ Len(channels) = SearchClusters

NextDownstream ==
    Enhance \/ SearchStep \/ SearchReturn \/ CreateClusters \/ NameClusters

SpecDownstream == InitDownstream /\ [][NextDownstream]_vars

\* C23: no downstream stage changes the input channel records or the input
\* matrix: every call to enhance_embeddings_with_relationships, to a pass of
\* find_optimal_weight, to create_clusters and to name_clusters leaves every
\* field of every record and every entry of the matrix as it was.
C23_InputsUnchanged == [][channels' = channels /\ embeddings' = embeddings]_vars

\* the row of the pool record at position i
IsPoolRow(i) ==
    \E p \in 1..Len(ChannelPool) :
        ChannelPool[p].rec = channels[i] /\ ChannelPool[p].row = embeddings[i]

\* an enhancer run that blended the row of channel 1 into a new row while
\* the matrix passed in still holds the rows of the records
C23_Witness ==
    /\ pc = "enhanced"
    /\ Len(channels) = 2
    /\ enhanced_embeddings[1] # InputRow(1)
    /\ \A i \in 1..Len(channels) : IsPoolRow(i)

(***************************************************************************)
(* enhanced_clustering.py: find_optimal_clusters.  The inertia and the     *)
(* silhouette score of the fit for each candidate k are left open: the     *)
(* lists hold them for k = 2, 3, ..., max_clusters.                        *)
(***************************************************************************)
\* np.diff(a)
Diff(a) == [j \in 1..(Len(a) - 1) |-> a[j + 1] - a[j]]

\* np.argmax(a) of a non-empty list: the first index of the maximum, from 0
ArgMax(a) ==
    (CHOOSE j \in 1..Len(a) : \A i \in 1..Len(a) : a[i] < a[j] \/ (a[i] = a[j] /\ j <= i)) - 1

\* lines 186-198, on the lists the loop of lines 175-183 collected; argmax
\* of an empty list raises ValueError
find_optimal_clusters(inertias, silhouette_scores) ==
    LET diffs2 == Diff(Diff(inertias))
    IN IF Len(diffs2) = 0 THEN [status |-> "raised", error |-> "ValueError", value |-> PyNone]
       ELSE LET elbow_idx == ArgMax(diffs2) + 2
                best_silhouette_idx == ArgMax(silhouette_scores) + 2
            IN [status |-> "returned", error |-> "",
                value |-> PyInt(IF elbow_idx < best_silhouette_idx
                                THEN elbow_idx ELSE best_silhouette_idx)]

(***************************************************************************)
(* Runs of find_optimal_clusters                                           *)
(***************************************************************************)
MaxCandidates == 5

\* inertias, which do not grow with k
InertiaValues == 0..3

InitOptimal ==
    /\ \E max_clusters \in 2..MaxCandidates :
       \E inertias \in [1..(max_clusters - 1) -> InertiaValues] :
       \E scores \in [1..(max_clusters - 1) -> SilhouetteValues] :
          /\ \A j \in 1..(max_clusters - 2) : inertias[j + 1] <= inertias[j]
          /\ search = [max_clusters |-> max_clusters,
                       inertias |-> ListOf(LAMBDA j : inertias[j], max_clusters - 1),
                       silhouette_scores |-> ListOf(LAMBDA j : scores[j], max_clusters - 1),
                       status |-> "running", error |-> "", value |-> PyNone]
    /\ channels = <<>> /\ embeddings = PyNone
    /\ n_clusters = 0 /\ algorithm = <<>> /\ clusters = PyNone
    /\ subscription_graph = <<>> /\ weight = 0 /\ enhanced_embeddings = PyNone
    /\ vec = PyNone
    /\ files = NoFiles /\ loaded = PyNone /\ viz = PyNone /\ lookups = <<>>
    /\ pc = "find_optimal_clusters"

FindOptimalClusters ==
    /\ pc = "find_optimal_clusters"
    /\ search' = find_optimal_clusters(search.inertias, search.silhouette_scores) @@ search
    /\ n_clusters' = IF search'.status = "returned" THEN search'.value.v ELSE n_clusters
    /\ pc' = "found"
    /\ UNCHANGED <<lookups, files, loaded, viz, channels, embeddings, algorithm,
                   subscription_graph, weight, clusters, enhanced_embeddings, vec>>

NextOptimal == FindOptimalClusters

SpecOptimal == InitOptimal /\ [][NextOptimal]_vars

\* inertia(k) and score(k) of a run, k in 2..max_clusters
InertiaAt(k) == search.inertias[k - 1]

ScoreAt(k) == search.silhouette_scores[k - 1]

\* the second difference of the inertia curve at k
Curvature(k) == InertiaAt(k - 1) - 2 * InertiaAt(k) + InertiaAt(k + 1)

\* the candidates at which the second difference is defined
InnerCandidates == 3..(search.max_clusters - 1)

IsElbow(k) == k \in InnerCandidates /\ \A j \in InnerCandidates : Curvature(j) <= Curvature(k)

IsBestScore(k) ==
    k \in 2..search.max_clusters /\ \A j \in 2..search.max_clusters : ScoreAt(j) <= ScoreAt(k)

SmallerOf(a, b) == IF a < b THEN a ELSE b

\* C25: the returned k is the smaller of a candidate with the highest
\* validity score and an elbow candidate, the k at which the second
\* difference inertia(k-1) - 2*inertia(k) + inertia(k+1) is largest; and it
\* lies in 2..max_clusters.
C25_SmallerOfBestAndElbow ==
    (pc = "found" /\ search.status = "returned") =>
        /\ search.value.v \in 2..search.max_clusters
        /\ \E best \in 2..search.max_clusters : \E elbow \in InnerCandidates :
              /\ IsBestScore(best) /\ IsElbow(elbow)
              /\ search.value.v = SmallerOf(best, elbow)

\* what the code does: its elbow candidate is one below the first k of
\* largest second difference; the returned k lies in 2..max_clusters, and
\* with max_clusters below 4 the call raises ValueError
C25_ElbowIsOneBelow ==
    pc = "found" =>
        IF search.max_clusters < 4
        THEN search.status = "raised" /\ search.error = "ValueError"
        ELSE /\ search.status = "returned"
             /\ search.value.v \in 2..search.max_clusters
             /\ \E best \in 2..search.max_clusters : \E elbow \in InnerCandidates :
                   /\ IsBestScore(best) /\ \A j \in 2..(best - 1) : ~IsBestScore(j)
                   /\ IsElbow(elbow) /\ \A j \in 3..(elbow - 1) : ~IsElbow(j)
                   /\ search.value.v = SmallerOf(best, elbow - 1)

\* inertias 3, 0, 0 for k = 2, 3, 4 and the best score at k = 4: the second
\* difference is largest at k = 3, and 2 is returned
C25_Witness ==
    /\ pc = "found"
    /\ search.inertias = <<3, 0, 0>>
    /\ IsBestScore(4) /\ ~IsBestScore(2) /\ ~IsBestScore(3)
    /\ IsElbow(3)
    /\ search.status = "returned" /\ search.value = PyInt(2)

(***************************************************************************)
(* Runs of create_clusters on matrices with and without a third column:    *)
(* the rows differ in their last column only.                              *)
(***************************************************************************)
MaxProjected == 6

ProjectedRows == {<<0, 0, 0>>, <<0, 0, 1>>}

InitProjected ==
    /\ \E N \in 2..MaxProjected : \E D \in {2, 3} :
       \E pick \in [1..N -> ProjectedRows] :
          /\ channels = [i \in 1..N |->
                            [ChannelPool[1].rec EXCEPT !.channel_id = PositionId(i)]]
          /\ embeddings = [i \in 1..N |-> SubSeq(pick[i], 4 - D, 3)]
    /\ n_clusters \in 1..2
    /\ algorithm \in {<<"k","m","e","a","n","s">>, <<"d","b","s","c","a","n">>}
    /\ clusters = PyNone
    /\ pc = "create_clusters"
    /\ Idle

NextProjected == CreateClusters

SpecProjected == InitProjected /\ [][NextProjected]_vars

\* the identifiers of the members of each group, in order
GroupIds(groups) ==
    [key \in DOMAIN groups |->
        [j \in 1..Len(groups[key]) |-> groups[key][j].channel_id]]

\* the grouping of the channels by the labels alone, no coordinates involved
GroupedByLabels(chs, labels) ==
    [key \in {Str(labels[i]) : i \in 1..Len(chs)} |->
        LET members == {i \in 1..Len(chs) : Str(labels[i]) = key}
        IN [j \in 1..Cardinality(members) |->
               LET i == CHOOSE m \in members :
                            Cardinality({n \in members : n < m}) = j - 1
               IN chs[i].channel_id]]

\* the labels of a DBSCAN or KMeans fit on every column of the matrix
FullMatrixLabels ==
    IF IsDBSCAN(algorithm) THEN {DBSCANLabels(embeddings)}
    ELSE KMeansLabels(embeddings, n_clusters)

\* C26: the labels create_clusters returns are those of the fit on the
\* full matrix; with more than two columns, where the 2-D projection is
\* computed, and with two, where it is not, the returned labels are the
\* fitted ones and the grouping is the grouping by those labels.
C26_ProjectionKeepsLabels ==
    (pc = "created" /\ clusters.status = "ok") =>
        /\ clusters.value.labels \in FullMatrixLabels
        /\ clusters.labels = clusters.value.labels
        /\ ("reduced_data" \in DOMAIN clusters.value) = (Len(embeddings[1]) > 2)
        /\ GroupIds(clusters.value.channels) = GroupedByLabels(channels, clusters.value.labels)

\* six rows of three columns, the last of them differing from the others in
\* the third column alone: DBSCAN makes it noise, and the projection is computed
C26_Witness ==
    /\ pc = "created" /\ clusters.status = "ok"
    /\ IsDBSCAN(algorithm)
    /\ Len(embeddings) = 6 /\ Len(embeddings[1]) = 3
    /\ "reduced_data" \in DOMAIN clusters.value
    /\ clusters.value.labels = <<0, 0, 0, 0, 0, -1>>
    /\ DOMAIN clusters.value.channels = {<<"0">>, <<"-","1">>}

(***************************************************************************)
(* data/fetch_subscriptions.py: fetch_all_subscriptions.  The account's    *)
(* subscription pages are the input; search holds the pages, the number    *)
(* of pages read, and the requests made: the id lists of the               *)
(* channels().list requests and the ids given to                           *)
(* fetch_recent_videos_and_engagement, in order.                           *)
(***************************************************************************)
MaxPages == 3
MaxPageItems == 2

\* channels().list takes the ids of one batch
enrich_batch_size == 50

\* lines 41-48: the record built for a subscription item
subscription_data(item) == [channel_id |-> item.channelId, title |-> Word]

\* lines 95-119: what enrichment does to a record of a batch
EnrichRecord(sub, channel_data) ==
    IF sub.channel_id \in channel_data
    THEN [subscriber_count |-> PyInt(120), engagement_rate |-> 3] @@ sub
    ELSE sub

\* lines 81-122: the batches of one call, their requests and lookups
RECURSIVE EnrichBatches(_, _, _, _)
EnrichBatches(i, subscriptions, channel_data, done) ==
    IF i >= Len(subscriptions) THEN done
    ELSE LET last == IF i + enrich_batch_size < Len(subscriptions)
                     THEN i + enrich_batch_size ELSE Len(subscriptions)
             batch == SubSeq(subscriptions, i + 1, last)
             channel_ids == [j \in 1..Len(batch) |-> batch[j].channel_id]
             found == SelectSeq(channel_ids, LAMBDA id : id \in channel_data)
         IN EnrichBatches(i + enrich_batch_size, subscriptions, channel_data,
               [subscriptions |-> done.subscriptions
                                  \o [j \in 1..Len(batch) |-> EnrichRecord(batch[j], channel_data)],
                requests |-> Append(done.requests, channel_ids),
                log |-> done.log \o found])

\* lines 67-124: enrich_with_channel_data(youtube_client, subscriptions),
\* continuing the request records
enrich_with_channel_data(subscriptions, channel_data, requests, log) ==
    EnrichBatches(0, subscriptions, channel_data,
                  [subscriptions |-> <<>>, requests |-> requests, log |-> log])

\* the ids the API has channel details for
KnownChannels(pages) ==
    UNION {{pages[p][j].channelId : j \in {n \in 1..Len(pages[p]) : pages[p][n].known}}
              : p \in 1..Len(pages)}

InitFetch ==
    /\ \E P \in 1..MaxPages : \E sizes \in [1..P -> 0..MaxPageItems] :
       LET Before(p) == SumSeq(SubSeq(sizes, 1, p - 1))
       IN \E known \in [1..SumSeq(sizes) -> BOOLEAN] :
             search = [pages |-> [p \in 1..P |->
                                    [j \in 1..sizes[p] |->
                                        [channelId |-> PositionId(Before(p) + j),
                                         known |-> known[Before(p) + j]]]],
                       page |-> 0, requests |-> <<>>, log |-> <<>>]
    /\ channels = <<>> /\ embeddings = PyNone
    /\ n_clusters = 0 /\ algorithm = <<>> /\ clusters = PyNone
    /\ subscription_graph = <<>> /\ weight = 0 /\ enhanced_embeddings = PyNone
    /\ vec = PyNone
    /\ files = NoFiles /\ loaded = PyNone /\ viz = PyNone /\ lookups = <<>>
    /\ pc = "fetch_page"

\* lines 26-62: one pass of the pagination loop
FetchPage ==
    /\ pc = "fetch_page"
    /\ LET items == search.pages[search.page + 1]
           page == [j \in 1..Len(items) |-> subscription_data(items[j])]
           enriched == enrich_with_channel_data(channels \o page, KnownChannels(search.pages),
                                                search.requests, search.log)
       IN /\ channels' = enriched.subscriptions
          /\ search' = [search EXCEPT !.page = @ + 1,
                                      !.requests = enriched.requests,
                                      !.log = enriched.log]
    /\ pc' = IF search.page + 1 < Len(search.pages) THEN "fetch_page" ELSE "returned"
    /\ UNCHANGED <<lookups, files, loaded, viz, embeddings, n_clusters, algorithm,
                   subscription_graph, weight, clusters, enhanced_embeddings, vec>>

NextFetch == FetchPage

SpecFetch == InitFetch /\ [][NextFetch]_vars

\* how many times id occurs in a list of ids
Times(id, ids) == Cardinality({j \in 1..Len(ids) : ids[j] = id})

\* in how many channels().list requests id was sent
TimesRequested(id) == Times(id, Flatten(search.requests))

\* the page of the run that holds the i-th record
PageOf(i) ==
    CHOOSE p \in 1..Len(search.pages) :
        /\ SumSeq([q \in 1..(p - 1) |-> Len(search.pages[q])]) < i
        /\ i <= SumSeq([q \in 1..p |-> Len(search.pages[q])])

\* C27: over a run of fetch_all_subscriptions each record is enriched once:
\* its id is sent in one channels().list request and, when the channel is
\* found, given to fetch_recent_videos_and_engagement one time.
C27_EnrichedOnce ==
    \A i \in 1..Len(channels) :
        /\ TimesRequested(channels[i].channel_id) <= 1
        /\ Times(channels[i].channel_id, search.log) <= 1
        /\ pc = "returned" =>
              /\ TimesRequested(channels[i].channel_id) = 1
              /\ "engagement_rate" \in DOMAIN channels[i]
                    => Times(channels[i].channel_id, search.log) = 1

\* what the code does: a record is enriched on its own page and on every
\* later page
C27_EnrichedOnEveryLaterPage ==
    pc = "returned" =>
        \A i \in 1..Len(channels) :
            /\ TimesRequested(channels[i].channel_id) = Len(search.pages) - PageOf(i) + 1
            /\ Times(channels[i].channel_id, search.log) =
                  IF channels[i].channel_id \in KnownChannels(search.pages)
                  THEN Len(search.pages) - PageOf(i) + 1 ELSE 0

\* two pages of one channel each, both found: the first is looked up twice
C27_Witness ==
    /\ pc = "returned"
    /\ Len(search.pages) = 2 /\ Len(channels) = 2
    /\ search.requests = <<<<PositionId(1)>>, <<PositionId(1), PositionId(2)>>>>
    /\ search.log = <<PositionId(1), PositionId(1), PositionId(2)>>

(***************************************************************************)
(* utils/helpers.py: safe_api_call.  What func does on each invocation is  *)
(* the input: it returns a value or raises an error.  search holds the     *)
(* locals of the call and the invocations made so far.                     *)
(***************************************************************************)
MaxRetries == 3

\* func returning the value v, func raising the error v
CallOutcomes == [ok : BOOLEAN, v : 1..2]

\* line 87: the loop condition
RetryAllowedMutant(retries, max_retries) == retries <= max_retries

RetryAllowed(retries, max_retries) == retries < max_retries

InitRetry ==
    /\ \E max_retries \in 0..MaxRetries :
       \E outcomes \in [1..(MaxRetries + 1) -> CallOutcomes] :
          search = [max_retries |-> max_retries, func |-> outcomes,
                    retries |-> 0, last_error |-> PyNone, calls |-> <<>>,
                    status |-> "running", value |-> PyNone, error |-> PyNone]
    /\ channels = <<>> /\ embeddings = PyNone
    /\ n_clusters = 0 /\ algorithm = <<>> /\ clusters = PyNone
    /\ subscription_graph = <<>> /\ weight = 0 /\ enhanced_embeddings = PyNone
    /\ vec = PyNone
    /\ files = NoFiles /\ loaded = PyNone /\ viz = PyNone /\ lookups = <<>>
    /\ pc = "safe_api_call"

\* lines 87-95: one pass of the loop
SafeApiCallTry ==
    /\ pc = "safe_api_call"
    /\ RetryAllowed(search.retries, search.max_retries)
    /\ LET outcome == search.func[Len(search.calls) + 1]
       IN IF outcome.ok
          THEN /\ search' = [search EXCEPT !.calls = Append(@, outcome),
                                           !.status = "returned",
                                           !.value = PyInt(outcome.v)]
               /\ pc' = "returned"
          ELSE /\ search' = [search EXCEPT !.calls = Append(@, outcome),
                                           !.last_error = PyInt(outcome.v),
                                           !.retries = @ + 1]
               /\ pc' = "safe_api_call"
    /\ UNCHANGED <<lookups, files, loaded, viz, channels, embeddings, n_clusters, algorithm,
                   subscription_graph, weight, clusters, enhanced_embeddings, vec>>

\* line 98: raise last_error; raising None is a TypeError
SafeApiCallRaise ==
    /\ pc = "safe_api_call"
    /\ ~RetryAllowed(search.retries, search.max_retries)
    /\ search' = [search EXCEPT !.status = "raised",
                                !.error = IF search.last_error = PyNone
                                          THEN PyStr(0) ELSE search.last_error]
    /\ pc' = "raised"
    /\ UNCHANGED <<lookups, files, loaded, viz, channels, embeddings, n_clusters, algorithm,
                   subscription_graph, weight, clusters, enhanced_embeddings, vec>>

NextRetry == SafeApiCallTry \/ SafeApiCallRaise

SpecRetry == InitRetry /\ [][NextRetry]_vars

\* the invocations before the last one all raised
EarlierCallsFailed ==
    \A j \in 1..(Len(search.calls) - 1) : ~search.calls[j].ok

\* C28: with max_retries >= 1, safe_api_call invokes func at most
\* max_retries times; when it returns, the value is that of the first
\* successful invocation, which is the last one made; when it raises, all
\* max_retries invocations failed and the error is that of the last one.
C28_RetryLaw ==
    ("calls" \in DOMAIN search /\ search.max_retries >= 1) =>
        /\ Len(search.calls) <= search.max_retries
        /\ \A j \in 1..Len(search.calls) : search.calls[j] = search.func[j]
        /\ EarlierCallsFailed
        /\ search.status = "returned" =>
              /\ Len(search.calls) >= 1
              /\ search.calls[Len(search.calls)].ok
              /\ search.value = PyInt(search.calls[Len(search.calls)].v)
        /\ search.status = "raised" =>
              /\ Len(search.calls) = search.max_retries
              /\ ~search.calls[Len(search.calls)].ok
              /\ search.error = PyInt(search.calls[Len(search.calls)].v)
        /\ search.status = "running" =>
              (Len(search.calls) >= 1 => ~search.calls[Len(search.calls)].ok)

\* three invocations allowed, the first two raise and the third returns 2
C28_Witness ==
    /\ pc = "returned"
    /\ search.max_retries = 3
    /\ Len(search.calls) = 3
    /\ ~search.calls[1].ok /\ ~search.calls[2].ok
    /\ search.value = PyInt(2)

\* three invocations allowed and all raise, the last one error 2
C28_WitnessRaised ==
    /\ pc = "raised"
    /\ search.max_retries = 3
    /\ Len(search.calls) = 3
    /\ search.calls[2].v = 1
    /\ search.error = PyInt(2)

(***************************************************************************)
(* interface/batch_actions.py: batch_subscribe and batch_unsubscribe.  The *)
(* id list and what the API does with each request are the input; search  *)
(* holds them, the requests made in order, and the returned dictionary.    *)
(***************************************************************************)
MaxBatch == 3

BatchIds == {<<"a">>, <<"b">>}

\* what request.execute() does: a response with a snippet and its title, a
\* response without snippet, a response whose snippet has no title, an error
InsertOutcomes == {"titled", "bare", "untitled", "raises"}

DeleteOutcomes == {"deleted", "raises"}

\* lines 48-52, 94-97
RecordSuccess(results, entry) ==
    [results EXCEPT !.success = Append(@, entry), !.success_count = @ + 1]

\* lines 57-63, 102-108
RecordFailureMutant(results, entry) ==
    [results EXCEPT !.failed = Append(@, entry)]

RecordFailure(results, entry) ==
    [results EXCEPT !.failed = Append(@, entry), !.failed_count = @ + 1]

\* lines 20-26, 79-85
EmptyResults(ids) ==
    [success |-> <<>>, failed |-> <<>>, total |-> Len(ids),
     success_count |-> 0, failed_count |-> 0]

\* lines 28-63: the loop of batch_subscribe from the i-th id on; a missing
\* title raises KeyError inside the try
RECURSIVE SubscribeLoop(_, _, _, _)
SubscribeLoop(i, channel_ids, api, done) ==
    IF i > Len(channel_ids) THEN done
    ELSE LET channel_id == channel_ids[i]
             requests == Append(done.requests, channel_id)
         IN SubscribeLoop(i + 1, channel_ids, api,
               [requests |-> requests,
                results |->
                  IF api[i] = "titled"
                  THEN RecordSuccess(done.results,
                          [channel_id |-> channel_id, title |-> <<"X","b","o","x">>])
                  ELSE IF api[i] = "bare"
                  THEN RecordSuccess(done.results,
                          [channel_id |-> channel_id, title |-> <<"U","n","k","n","o","w","n">>])
                  ELSE IF api[i] = "untitled"
                  THEN RecordFailure(done.results,
                          [channel_id |-> channel_id, error |-> <<"'","t","i","t","l","e","'">>])
                  ELSE RecordFailure(done.results,
                          [channel_id |-> channel_id, error |-> <<"H","t","t","p","E","r","r","o","r">>])])

\* lines 87-108: the loop of batch_unsubscribe from the i-th id on
RECURSIVE UnsubscribeLoop(_, _, _, _)
UnsubscribeLoop(i, subscription_ids, api, done) ==
    IF i > Len(subscription_ids) THEN done
    ELSE LET subscription_id == subscription_ids[i]
             requests == Append(done.requests, subscription_id)
         IN UnsubscribeLoop(i + 1, subscription_ids, api,
               [requests |-> requests,
                results |->
                  IF api[i] = "deleted"
                  THEN RecordSuccess(done.results, [subscription_id |-> subscription_id])
                  ELSE RecordFailure(done.results,
                          [subscription_id |-> subscription_id, error |-> <<"H","t","t","p","E","r","r","o","r">>])])

batch_subscribe(channel_ids, api) ==
    SubscribeLoop(1, channel_ids, api, [requests |-> <<>>, results |-> EmptyResults(channel_ids)])

batch_unsubscribe(subscription_ids, api) ==
    UnsubscribeLoop(1, subscription_ids, api,
                    [requests |-> <<>>, results |-> EmptyResults(subscription_ids)])

InitBatch ==
    /\ \E N \in 0..MaxBatch : \E ids \in [1..N -> BatchIds] :
          \/ /\ pc = "batch_subscribe"
             /\ \E api \in [1..N -> InsertOutcomes] :
                   search = [ids |-> ids, api |-> api, requests |-> <<>>, results |-> PyNone]
          \/ /\ pc = "batch_unsubscribe"
             /\ \E api \in [1..N -> DeleteOutcomes] :
                   search = [ids |-> ids, api |-> api, requests |-> <<>>, results |-> PyNone]
    /\ channels = <<>> /\ embeddings = PyNone
    /\ n_clusters = 0 /\ algorithm = <<>> /\ clusters = PyNone
    /\ subscription_graph = <<>> /\ weight = 0 /\ enhanced_embeddings = PyNone
    /\ vec = PyNone
    /\ files = NoFiles /\ loaded = PyNone /\ viz = PyNone /\ lookups = <<>>

BatchSubscribe ==
    /\ pc = "batch_subscribe"
    /\ search' = batch_subscribe(search.ids, search.api) @@ search
    /\ pc' = "subscribed"
    /\ UNCHANGED <<lookups, files, loaded, viz, channels, embeddings, n_clusters, algorithm,
                   subscription_graph, weight, clusters, enhanced_embeddings, vec>>

BatchUnsubscribe ==
    /\ pc = "batch_unsubscribe"
    /\ search' = batch_unsubscribe(search.ids, search.api) @@ search
    /\ pc' = "unsubscribed"
    /\ UNCHANGED <<lookups, files, loaded, viz, channels, embeddings, n_clusters, algorithm,
                   subscription_graph, weight, clusters, enhanced_embeddings, vec>>

NextBatch == BatchSubscribe \/ BatchUnsubscribe

SpecBatch == InitBatch /\ [][NextBatch]_vars

BatchDone == pc \in {"subscribed", "unsubscribed"}

\* the id of an entry of a result list
EntryId(entry) ==
    IF "channel_id" \in DOMAIN entry THEN entry.channel_id ELSE entry.subscription_id

EntryIds(entries) == [j \in 1..Len(entries) |-> EntryId(entries[j])]

\* the request succeeded: the id goes to the success list
Succeeds(outcome) == outcome \in {"titled", "bare", "deleted"}

\* the ids at the positions of the input list whose request succeeded
\* (or, with succeeded FALSE, did not), in order
RECURSIVE IdsWhere(_, _, _)
IdsWhere(ids, api, succeeded) ==
    IF ids = <<>> THEN <<>>
    ELSE (IF Succeeds(api[1]) = succeeded THEN <<ids[1]>> ELSE <<>>)
         \o IdsWhere(Tail(ids), Tail(api), succeeded)

\* every id is requested in input order, and the counters agree with the
\* lists and the input
BatchCountsAgree ==
    /\ search.requests = search.ids
    /\ search.results.total = Len(search.ids)
    /\ search.results.success_count = Len(search.results.success)
    /\ search.results.failed_count = Len(search.results.failed)
    /\ search.results.success_count + search.results.failed_count = search.results.total

\* C29 as stated: every id is attempted in input order, each id is in
\* exactly one of the success and failed lists, and the counters agree.
C29_EachIdInOneList ==
    BatchDone =>
        /\ BatchCountsAgree
        /\ \A id \in SetOfSeq(search.ids) :
              (id \in SetOfSeq(EntryIds(search.results.success)))
                 # (id \in SetOfSeq(EntryIds(search.results.failed)))

\* C29: every id is attempted in input order; each position of the input
\* list gives one entry, in success when its request succeeded and in failed
\* when it did not, both lists in input order; the counters agree.
C29_EachAttemptInOneList ==
    BatchDone =>
        /\ BatchCountsAgree
        /\ EntryIds(search.results.success) = IdsWhere(search.ids, search.api, TRUE)
        /\ EntryIds(search.results.failed) = IdsWhere(search.ids, search.api, FALSE)
        /\ \A id \in SetOfSeq(search.ids) :
              Times(id, EntryIds(search.results.success))
                 + Times(id, EntryIds(search.results.failed)) = Times(id, search.ids)

\* the list a, b, a: the first two requests succeed, the third is refused;
\* a is in both lists
C29_Witness ==
    /\ pc = "subscribed"
    /\ search.ids = <<<<"a">>, <<"b">>, <<"a">>>>
    /\ search.api = <<"titled", "bare", "raises">>
    /\ EntryIds(search.results.success) = <<<<"a">>, <<"b">>>>
    /\ EntryIds(search.results.failed) = <<<<"a">>>>
    /\ search.results.success_count = 2 /\ search.results.failed_count = 1

(***************************************************************************)
(* interface/streamlit_app.py: the session.  search holds                  *)
(* st.session_state.authenticated and .subscriptions with the last action  *)
(* and what it reported; embeddings and clusters are                       *)
(* st.session_state.embeddings and .clusters; files is the data directory. *)
(***************************************************************************)
MaxFetched == 2

\* what fetch_all_subscriptions may return: up to MaxFetched records with the
\* same fields, or a record without statistics followed by one with them
FetchedLists ==
    {ListOf(LAMBDA i : [ChannelPool[1].rec EXCEPT !.channel_id = PositionId(i)], N)
        : N \in 0..MaxFetched}
    \cup {<<ChannelPool[3].rec, ChannelPool[1].rec>>}

\* csv.DictWriter.writerow rejects a record with a field that the first
\* record, which gives the header, does not have
RowRejected(subscriptions, i) == ~(DOMAIN subscriptions[i] \subseteq DOMAIN subscriptions[1])

\* save_subscriptions(subscriptions), store.py lines 12-48, format 'csv':
\* the file holds the rows written before a rejected one
save_subscriptions(subscriptions, dir) ==
    LET rejected == {i \in 1..Len(subscriptions) : RowRejected(subscriptions, i)}
        written == IF rejected = {} THEN Len(subscriptions) ELSE Min(rejected) - 1
        rows == ListOf(LAMBDA i : CsvRow(subscriptions[i],
                                         CountFields \subseteq DOMAIN subscriptions[1]),
                       written)
    IN [status |-> IF rejected = {} THEN "ok" ELSE "error",
        files |-> IF subscriptions = <<>> THEN dir
                  ELSE [name \in DOMAIN dir \cup {"subscriptions.csv"} |->
                           IF name = "subscriptions.csv" THEN rows ELSE dir[name]]]

\* lines 306-312: the slider gives 2..30
SessionSlider == {2, 10}

Session(authenticated, subscriptions, action, outcome) ==
    [authenticated |-> authenticated, subscriptions |-> subscriptions,
     action |-> action, outcome |-> outcome]

\* lines 35-45; the data directory is empty or holds an earlier subscriptions.csv
InitSession ==
    /\ search = Session(FALSE, PyNone, "", "")
    /\ embeddings = PyNone /\ clusters = PyNone
    /\ \/ files = NoFiles
       \/ files = [name \in {"subscriptions.csv"} |-> <<CsvRow(SessionPool[2], TRUE)>>]
    /\ channels = <<>> /\ n_clusters = 10 /\ algorithm = <<"k","m","e","a","n","s">>
    /\ subscription_graph = <<>> /\ weight = 0 /\ enhanced_embeddings = PyNone
    /\ vec = PyNone /\ loaded = PyNone /\ viz = PyNone /\ lookups = <<>>
    /\ pc = "session"

\* lines 283-286 and 48-57: the button is shown while not authenticated
AuthenticateUser ==
    /\ pc = "session"
    /\ ~search.authenticated
    /\ \E authenticates \in BOOLEAN :
          search' = Session(authenticates, search.subscriptions, "authenticate_user",
                            IF authenticates THEN "success" ELSE "error")
    /\ UNCHANGED <<lookups, files, loaded, viz, channels, embeddings, n_clusters, algorithm,
                   subscription_graph, weight, clusters, enhanced_embeddings, vec, pc>>

\* lines 298-299 and 60-73
FetchData ==
    /\ pc = "session"
    /\ search.authenticated
    /\ \/ /\ search' = Session(TRUE, search.subscriptions, "fetch_data", "error")
          /\ files' = files
       \/ \E subscriptions \in FetchedLists :
             LET saved == save_subscriptions(subscriptions, files)
             IN /\ search' = Session(TRUE, PyList(subscriptions), "fetch_data",
                                     IF saved.status = "ok" THEN "success" ELSE "error")
                /\ files' = saved.files
    /\ UNCHANGED <<lookups, loaded, viz, channels, embeddings, n_clusters, algorithm,
                   subscription_graph, weight, clusters, enhanced_embeddings, vec, pc>>

\* lines 300-301 and 76-87
LoadData ==
    /\ pc = "session"
    /\ search.authenticated
    /\ LET subscriptions == load_subscriptions(files)
       IN search' = IF subscriptions # <<>>
                    THEN Session(TRUE, PyList(subscriptions), "load_data", "success")
                    ELSE Session(TRUE, search.subscriptions, "load_data", "warning")
    /\ UNCHANGED <<lookups, files, loaded, viz, channels, embeddings, n_clusters, algorithm,
                   subscription_graph, weight, clusters, enhanced_embeddings, vec, pc>>

\* line 103 and line 108: what a run of create_channel_clusters leaves in
\* st.session_state.embeddings and .clusters
SessionEmbeddings(outcome, previous) ==
    IF outcome.vec.status = "ok" THEN [t |-> "ndarray", v |-> outcome.vec.embeddings]
    ELSE previous

SessionClusters(outcome, previous) ==
    IF outcome.status = "success" THEN outcome.clusters.value ELSE previous

\* lines 304-315 and 90-113: the button is shown once subscriptions is set
ClusterButton ==
    /\ pc = "session"
    /\ search.authenticated
    /\ search.subscriptions # PyNone
    /\ \E k \in SessionSlider :
       \E outcome \in create_channel_clusters(search.subscriptions, k, files) :
          /\ n_clusters' = k
          /\ embeddings' = SessionEmbeddings(outcome, embeddings)
          /\ clusters' = SessionClusters(outcome, clusters)
          /\ files' = outcome.files
          /\ search' = Session(TRUE, search.subscriptions, "create_channel_clusters",
                               outcome.status)
    /\ UNCHANGED <<lookups, loaded, viz, channels, algorithm,
                   subscription_graph, weight, enhanced_embeddings, vec, pc>>

NextSession == AuthenticateUser \/ FetchData \/ LoadData \/ ClusterButton

SpecSession == InitSession /\ [][NextSession]_vars

\* clusters is set only when subscriptions is
ClustersNeedSubscriptions == clusters # PyNone => search.subscriptions # PyNone

\* a step changes embeddings or clusters only in create_channel_clusters,
\* with subscriptions set
OnlyClusteringSets ==
    (embeddings' # embeddings \/ clusters' # clusters) =>
        /\ search'.action = "create_channel_clusters"
        /\ search.subscriptions # PyNone

\* a step of an action that reports an error keeps the three values
FailureKeepsValues ==
    search'.outcome = "error" =>
        /\ search'.subscriptions = search.subscriptions
        /\ embeddings' = embeddings
        /\ clusters' = clusters

C30_ClustersOnlyFromSubscriptions ==
    /\ [](ClustersNeedSubscriptions)
    /\ [][OnlyClusteringSets]_vars

====
